---- MODULE Spec2Model ----
(***************************************************************************)
(* Verification model of the bracket calculator (eyovvalupe/calc).         *)
(*                                                                         *)
(* The core of the program is a set of pure functions (utils.js, kept in   *)
(* src/unnamed/part_000) that App.jsx calls with plain data.  Each of them *)
(* is an operator below, computed the way the JavaScript computes it, and  *)
(* is exercised by a small specification of its own: Init draws the        *)
(* arguments from bounded sets, the action applies the function and stores *)
(* what it returned.                                                       *)
(*                                                                         *)
(* Numbers.  A JavaScript number is a record [n, d]: the rational n/d in   *)
(* lowest terms when d > 0, +Infinity = 1/0, -Infinity = -1/0, NaN = 0/0.  *)
(* Finite arithmetic is exact: IEEE-754 rounding is not modelled, so       *)
(* every equality below is the one the spec calls "within floating-point   *)
(* tolerance".                                                             *)
(*                                                                         *)
(* Strings that the code trims (source names) are sequences of one-        *)
(* character strings; other strings (labels, ids) are TLA+ strings.        *)
(* Array indices are JavaScript's (0-based); At(a, i) reads a[i].          *)
(***************************************************************************)
EXTENDS Integers, Sequences, FiniteSets, TLC

VARIABLES
    args,      \* the arguments of the call under way (a record)
    ret,       \* what the function(s) returned, once applied
    pc,        \* "call" before the function is applied, "done" after the last one;
               \* "app" while the application runs
    app,       \* the state of the BracketCalculator component (App.jsx): a record
               \* of its useState cells, under their names
    storage,   \* localStorage[STORAGE_KEY]
    download,  \* the file downloadData last handed out
    writable,  \* localStorage.setItem succeeds (it throws when the quota is used up)
    crashed,   \* an exception has left a handler or the render
    console,   \* the last message of console.error or alert ("" when none yet)
    now        \* Date.now()

callVars == <<args, ret, pc>>

appVars == <<app, storage, download, writable, crashed, console, now>>

vars == <<callVars, appVars>>

\* The application is not running while a function is applied on its own.
AppNotStarted ==
    /\ app = <<>>
    /\ storage = <<>>
    /\ download = <<>>
    /\ writable = TRUE
    /\ crashed = FALSE
    /\ console = ""
    /\ now = 0

(***************************************************************************)
(* Bounds of the model.                                                    *)
(***************************************************************************)
MaxBrackets == 3    \* longest bracket scheme drawn
MaxRows == 2        \* most rows in a row set
MaxSnapshots == 2   \* most snapshots in a collection
MaxWindow == 2      \* largest look-back window
MaxStats == 2       \* most sources in the per-source statistics

(***************************************************************************)
(* JavaScript numbers.                                                     *)
(***************************************************************************)
Abs(i) == IF i < 0 THEN -i ELSE i

RECURSIVE Gcd(_, _)
Gcd(a, b) == IF b = 0 THEN a ELSE Gcd(b, a % b)

\* The number n/d (d # 0), in lowest terms with a positive denominator.
Rat(n, d) ==
    LET g == Gcd(Abs(n), Abs(d))
        s == IF d < 0 THEN -1 ELSE 1
    IN  [n |-> (s * n) \div g, d |-> (s * d) \div g]

Num(i) == [n |-> i, d |-> 1]
Infinity == [n |-> 1, d |-> 0]
NegInfinity == [n |-> -1, d |-> 0]
NaN == [n |-> 0, d |-> 0]

IsNaN(x) == x.d = 0 /\ x.n = 0
\* Number.isFinite
IsFinite(x) == x.d > 0

\* The number a comparison reads from a value: null counts as 0.
ToNumber(x) == IF "null" \in DOMAIN x THEN [n |-> 0, d |-> 1] ELSE x

\* a <= b, a < b, a > b as JavaScript evaluates them: false when either is NaN.
Leq(a0, b0) ==
    LET a == ToNumber(a0)
        b == ToNumber(b0)
    IN  /\ ~IsNaN(a)
        /\ ~IsNaN(b)
        /\ IF a.d = 0 /\ b.d = 0 THEN a.n <= b.n
           ELSE IF a.d = 0 THEN a.n < 0
           ELSE IF b.d = 0 THEN b.n > 0
           ELSE a.n * b.d <= b.n * a.d
Lt(a, b) == Leq(a, b) /\ ToNumber(a) # ToNumber(b)
Gt(a, b) == Lt(b, a)

\* Arithmetic on finite numbers.
Add(a, b) == Rat(a.n * b.d + b.n * a.d, a.d * b.d)
Sub(a, b) == Rat(a.n * b.d - b.n * a.d, a.d * b.d)
Mul(a, b) == Rat(a.n * b.n, a.d * b.d)
\* a / b for finite a and finite b # 0.
Div(a, b) == Rat(a.n * b.d, a.d * b.n)

Zero == Num(0)
One == Num(1)

RECURSIVE SumSeq(_)
\* arr.reduce((a, b) => a + b, 0)
SumSeq(s) == IF s = <<>> THEN Zero ELSE Add(SumSeq(SubSeq(s, 1, Len(s) - 1)), s[Len(s)])

\* a[i] for a JavaScript (0-based) index inside the array.
At(a, i) == a[i + 1]

(***************************************************************************)
(* Bracket assignment.                                                     *)
(***************************************************************************)
RECURSIVE FindIndexLeq(_, _, _)
\* scheme.findIndex((b) => t <= b.max), scanning from position i (1-based).
FindIndexLeq(scheme, t, i) ==
    IF i > Len(scheme) THEN -1
    ELSE IF Leq(t, scheme[i].max) THEN i - 1
    ELSE FindIndexLeq(scheme, t, i + 1)

RECURSIVE FindIndexLt(_, _, _)
FindIndexLt(scheme, t, i) ==
    IF i > Len(scheme) THEN -1
    ELSE IF Lt(t, scheme[i].max) THEN i - 1
    ELSE FindIndexLt(scheme, t, i + 1)

\* Mutant of findBracket: the boundary value falls into the next bracket.
findBracket_strict(scheme, t) ==
    IF Len(scheme) = 0 THEN -1 ELSE FindIndexLt(scheme, t, 1)

findBracket(scheme, t) ==
    IF Len(scheme) = 0 THEN -1 ELSE FindIndexLeq(scheme, t, 1)

Max2(a, b) == IF a >= b THEN a ELSE b
Min2(a, b) == IF a <= b THEN a ELSE b
clamp(i, n) == Max2(0, Min2(n - 1, i))

(***************************************************************************)
(* Input sets shared by the specifications.                                *)
(***************************************************************************)
SeqsUpTo(S, k) == UNION {[1..m -> S] : m \in 0..k}

\* Thresholds a scheme may carry: those of defaultScheme's first brackets and
\* the unbounded last one.
MaxValues == {Num(91), Num(93), Num(95), Infinity}

\* label of a bracket with threshold m
LabelOf(m) ==
    CASE m = Num(91) -> "<=91"
      [] m = Num(93) -> "92-93"
      [] m = Num(95) -> "94-95"
      [] OTHER -> "100+"

Bracket(m) == [label |-> LabelOf(m), max |-> m]

\* Every scheme of at most MaxBrackets brackets with thresholds in ms, sorted
\* or not (the scheme editor accepts any threshold in any row).
SchemesOver(M) == {[i \in DOMAIN ms |-> Bracket(ms[i])] : ms \in SeqsUpTo(M, MaxBrackets)}

Schemes == SchemesOver(MaxValues)

StrictlyIncreasing(scheme) ==
    \A i \in 1..(Len(scheme) - 1) : Lt(scheme[i].max, scheme[i + 1].max)

\* Forecast / actual values: on, between, below and above the thresholds.
Temperatures == {Num(90), Num(91), Num(92), Num(93), Num(94), Num(95), Num(96)}

(***************************************************************************)
(* SpecFindBracket: findBracket applied to any scheme and any value.       *)
(***************************************************************************)
InitFindBracket ==
    /\ args \in [scheme : Schemes, t : Temperatures \cup {Infinity, NegInfinity, NaN}]
    /\ ret = -2
    /\ pc = "call"
    /\ AppNotStarted

CallFindBracket ==
    /\ pc = "call"
    /\ ret' = findBracket(args.scheme, args.t)
    /\ pc' = "done"
    /\ UNCHANGED <<args, appVars>>

SpecFindBracket == InitFindBracket /\ [][CallFindBracket]_vars

\* C1: findBracket returns the smallest index i with value <= scheme[i].max,
\* and -1 when the scheme is empty or no threshold is >= the value; on a
\* scheme with strictly increasing max the boundary value scheme[i].max
\* resolves to bracket i itself (never i+1).
C1_FindBracketSmallestIndex ==
    pc = "done" =>
        LET s == args.scheme
            t == args.t
            Fits == {i \in 0..(Len(s) - 1) : Leq(t, At(s, i).max)}
        IN  /\ Fits = {} => ret = -1
            /\ Fits # {} => ret \in Fits /\ \A j \in Fits : ret <= j
            /\ StrictlyIncreasing(s) =>
                  \A i \in 0..(Len(s) - 1) : t = At(s, i).max => ret = i

\* Witness of C1: the value sits exactly on the threshold of a middle bracket
\* of a strictly increasing scheme and findBracket has answered that bracket.
C1_Witness ==
    /\ pc = "done"
    /\ Len(args.scheme) = 3
    /\ StrictlyIncreasing(args.scheme)
    /\ args.t = At(args.scheme, 1).max
    /\ ret = 1

(***************************************************************************)
(* Probability engine.                                                     *)
(***************************************************************************)
\* Mutant of bleed: half of the weight bleeds.
bleed_half == Rat(1, 2)

bleed == Rat(3, 10)

\* out[i] += x (i a 0-based index of out)
AddAt(out, i, x) == [out EXCEPT ![i + 1] = Add(@, x)]

\* r.nWeight || 0
WeightOf(r) == IF IsNaN(r.nWeight) THEN Zero ELSE r.nWeight

\* Where the bleed share of a row in bracket b goes (n brackets).
SpreadBleed(out, b, n, bleedShare) ==
    IF ~Gt(bleedShare, Zero) THEN out
    ELSE IF b - 1 >= 0 /\ b + 1 < n
         THEN AddAt(AddAt(out, b - 1, Div(bleedShare, Num(2))), b + 1, Div(bleedShare, Num(2)))
    ELSE IF b - 1 >= 0 THEN AddAt(out, b - 1, bleedShare)
    ELSE IF b + 1 < n THEN AddAt(out, b + 1, bleedShare)
    ELSE AddAt(out, b, bleedShare)

\* Mutant of AddRow: a bracket at the edge of the scheme hands its only
\* neighbour half of the bleed share, as an interior bracket does.
AddRow_edgeHalf(out, scheme, r) ==
    LET f == r.adjForecast
        b == findBracket(scheme, f)
        w == WeightOf(r)
        n == Len(scheme)
        baseShare == Mul(Sub(One, bleed), w)
        bleedShare == Mul(bleed, w)
        based == AddAt(out, clamp(b, n), baseShare)
    IN  IF ~IsFinite(f) \/ b < 0 THEN out
        ELSE IF b - 1 >= 0 /\ b + 1 < n THEN SpreadBleed(based, b, n, bleedShare)
        ELSE SpreadBleed(based, b, n, Div(bleedShare, Num(2)))

\* Mutant of AddRow: a row that resolves to no bracket is counted in the last
\* one.
AddRow_unresolvedToLast(out, scheme, r) ==
    LET f == r.adjForecast
        b == findBracket(scheme, f)
        w == WeightOf(r)
        n == Len(scheme)
        baseShare == Mul(Sub(One, bleed), w)
        bleedShare == Mul(bleed, w)
    IN  IF ~IsFinite(f) THEN out
        ELSE IF b < 0 THEN AddAt(out, n - 1, w)
        ELSE SpreadBleed(AddAt(out, clamp(b, n), baseShare), b, n, bleedShare)

\* The body of adjustedRows.forEach in calculateBaseProbs: one row added to out.
AddRow(out, scheme, r) ==
    LET f == r.adjForecast
        b == findBracket(scheme, f)
        w == WeightOf(r)
        n == Len(scheme)
        baseShare == Mul(Sub(One, bleed), w)
        bleedShare == Mul(bleed, w)
    IN  IF ~IsFinite(f) THEN out
        ELSE IF b < 0 THEN out
        ELSE SpreadBleed(AddAt(out, clamp(b, n), baseShare), b, n, bleedShare)

RECURSIVE AddRows(_, _, _, _)
\* adjustedRows.forEach, from row i (1-based) on.
AddRows(out, scheme, rows, i) ==
    IF i > Len(rows) THEN out
    ELSE AddRows(AddRow(out, scheme, rows[i]), scheme, rows, i + 1)

calculateBaseProbs(adjustedRows, scheme) ==
    IF Len(scheme) = 0 THEN <<>>
    ELSE AddRows([i \in 1..Len(scheme) |-> Zero], scheme, adjustedRows, 1)

(***************************************************************************)
(* SpecBaseProbs: calculateBaseProbs applied to any row set and scheme.    *)
(***************************************************************************)
\* adjusted forecasts: on a threshold, inside a bracket, above the finite
\* thresholds, and not a number
AdjForecasts == {Num(91), Num(92), Num(94), NaN}

\* normalized weights
NWeights == {Zero, Rat(1, 2), One}

AdjustedRows == [adjForecast : AdjForecasts, nWeight : NWeights]

InitBaseProbs ==
    /\ args \in [adjustedRows : SeqsUpTo(AdjustedRows, MaxRows),
                 scheme : SchemesOver({Num(91), Num(93), Infinity})]
    /\ ret = <<>>
    /\ pc = "call"
    /\ AppNotStarted

CallBaseProbs ==
    /\ pc = "call"
    /\ ret' = calculateBaseProbs(args.adjustedRows, args.scheme)
    /\ pc' = "done"
    /\ UNCHANGED <<args, appVars>>

SpecBaseProbs == InitBaseProbs /\ [][CallBaseProbs]_vars

\* The vector with x at index b, y at each index of N and 0 elsewhere.
VectorOf(n, b, x, N, y) ==
    [i \in 1..n |-> IF i = b + 1 THEN x ELSE IF (i - 1) \in N THEN y ELSE Zero]

\* C2: a single row of weight w > 0 resolving to bracket b of n brackets puts
\* 0.7*w on b and 0.3*w on the neighbours: 0.15*w on each of b-1 and b+1 when
\* both exist, all of it on the only neighbour when b is first or last of
\* n >= 2 brackets, and back on b when n = 1; weight 1 in the middle of three
\* brackets gives [0.15, 0.70, 0.15].
C2_SingleRowBleed ==
    (pc = "done" /\ Len(args.adjustedRows) = 1) =>
        LET r == args.adjustedRows[1]
            w == r.nWeight
            n == Len(args.scheme)
            b == findBracket(args.scheme, r.adjForecast)
            w70 == Mul(Rat(7, 10), w)
            w30 == Mul(Rat(3, 10), w)
            w15 == Mul(Rat(15, 100), w)
        IN  (Gt(w, Zero) /\ IsFinite(r.adjForecast) /\ b >= 0) =>
              /\ n = 1 => ret = <<w>>
              /\ (n >= 2 /\ b = 0) => ret = VectorOf(n, 0, w70, {1}, w30)
              /\ (n >= 2 /\ b = n - 1) => ret = VectorOf(n, b, w70, {b - 1}, w30)
              /\ (b >= 1 /\ b + 1 < n) => ret = VectorOf(n, b, w70, {b - 1, b + 1}, w15)
              /\ (n = 3 /\ b = 1 /\ w = One) => ret = <<Rat(15, 100), Rat(70, 100), Rat(15, 100)>>

\* Witness of C2: one row of weight 1 in the middle of three brackets.
C2_Witness ==
    /\ pc = "done"
    /\ Len(args.adjustedRows) = 1
    /\ args.adjustedRows[1].nWeight = One
    /\ Len(args.scheme) = 3
    /\ findBracket(args.scheme, args.adjustedRows[1].adjForecast) = 1
    /\ ret = <<Rat(3, 20), Rat(7, 10), Rat(3, 20)>>

RECURSIVE SumOfWeights(_)
SumOfWeights(rows) ==
    IF rows = <<>> THEN Zero
    ELSE Add(SumOfWeights(SubSeq(rows, 1, Len(rows) - 1)), rows[Len(rows)].nWeight)

ValidRows(rows) ==
    \A i \in 1..Len(rows) : Leq(Zero, rows[i].nWeight) /\ IsFinite(rows[i].adjForecast)

AllResolve(rows, scheme) ==
    \A i \in 1..Len(rows) : findBracket(scheme, rows[i].adjForecast) >= 0

\* C3 as stated: for any non-empty scheme and rows with nWeight >= 0 and
\* finite adjusted forecasts, the output sums to the sum of the nWeight.
\* Fails when a forecast exceeds every threshold of a scheme whose last max
\* is finite: that row is dropped and its weight is lost.
C3_Original_MassConservedAnyScheme ==
    (pc = "done" /\ Len(args.scheme) > 0 /\ ValidRows(args.adjustedRows)) =>
        SumSeq(ret) = SumOfWeights(args.adjustedRows)

\* C3 (amended): for any non-empty scheme and rows with nWeight >= 0 and finite
\* adjusted forecasts that all resolve to a bracket (findBracket >= 0, as they
\* do when the last max is +Infinity), the output sums to the sum of the
\* rows' nWeight.
C3_MassConservedWhenResolved ==
    (/\ pc = "done"
     /\ Len(args.scheme) > 0
     /\ ValidRows(args.adjustedRows)
     /\ AllResolve(args.adjustedRows, args.scheme)) =>
        SumSeq(ret) = SumOfWeights(args.adjustedRows)

\* Witness of C3: two weighted rows in different brackets, one of them at the
\* edge of the scheme, whose masses add up to 1.
C3_Witness ==
    /\ pc = "done"
    /\ Len(args.scheme) = 3
    /\ Len(args.adjustedRows) = 2
    /\ ValidRows(args.adjustedRows)
    /\ AllResolve(args.adjustedRows, args.scheme)
    /\ findBracket(args.scheme, args.adjustedRows[1].adjForecast) = 0
    /\ findBracket(args.scheme, args.adjustedRows[2].adjForecast) = 2
    /\ args.adjustedRows[1].nWeight = Rat(1, 2)
    /\ args.adjustedRows[2].nWeight = Rat(1, 2)
    /\ SumSeq(ret) = One

(***************************************************************************)
(* Strings that are trimmed, and Map / object stores keyed by them.        *)
(***************************************************************************)
RECURSIVE TrimStart(_)
TrimStart(s) == IF s # <<>> /\ Head(s) = " " THEN TrimStart(Tail(s)) ELSE s

RECURSIVE TrimEnd(_)
TrimEnd(s) ==
    IF s # <<>> /\ s[Len(s)] = " " THEN TrimEnd(SubSeq(s, 1, Len(s) - 1)) ELSE s

\* String.prototype.trim
Trim(s) == TrimEnd(TrimStart(s))

\* Mutant of Trim: the name is used as typed.
Trim_none(s) == s

\* A Map (or a plain object used as one) is the sequence of its entries
\* [k, v] in insertion order.
MapKeys(m) == {m[i].k : i \in 1..Len(m)}
MapHas(m, k) == k \in MapKeys(m)
\* m.get(k) || dflt
MapGet(m, k, dflt) ==
    IF MapHas(m, k) THEN (CHOOSE e \in {m[i] : i \in 1..Len(m)} : e.k = k).v ELSE dflt
\* m.set(k, v)
MapSet(m, k, v) ==
    IF MapHas(m, k) THEN [i \in 1..Len(m) |-> IF m[i].k = k THEN [k |-> k, v |-> v] ELSE m[i]]
    ELSE Append(m, [k |-> k, v |-> v])

(***************************************************************************)
(* Bias estimator.                                                         *)
(***************************************************************************)
\* typeof s.actual === "number": a snapshot without an outcome has no
\* actual field.
HasActual(s) == "actual" \in DOMAIN s

\* snapshots.filter((s) => typeof s.actual === "number")
WithActual(snapshots) == SelectSeq(snapshots, HasActual)

\* arr.slice(0, k)
Slice0(arr, k) == SubSeq(arr, 1, Min2(k, Len(arr)))

\* Mutant of TakeWindow: the window is cut before the snapshots without an
\* actual are filtered out.
TakeWindow_sliceFirst(snapshots, windowSize) ==
    IF windowSize > 0 THEN WithActual(Slice0(snapshots, windowSize))
    ELSE WithActual(snapshots)

\* withActual, then take
TakeWindow(snapshots, windowSize) ==
    LET withActual == WithActual(snapshots)
    IN  IF windowSize > 0 THEN Slice0(withActual, windowSize) ELSE withActual

\* Mutant of SignedError: forecast minus actual.
SignedError_flipped(actual, fc) == Sub(fc, actual)

\* const err = actual - fc
SignedError(actual, fc) == Sub(actual, fc)

\* The body of currentRows.forEach in computeBiases; acc = [sum, cnt].
BiasAddRow(acc, actual, r) ==
    LET name == Trim(r.source)
        fc == r.forecast
    IN  IF name = <<>> \/ ~IsFinite(fc) THEN acc
        ELSE [sum |-> MapSet(acc.sum, name, Add(MapGet(acc.sum, name, Zero), SignedError(actual, fc))),
              cnt |-> MapSet(acc.cnt, name, MapGet(acc.cnt, name, 0) + 1)]

RECURSIVE BiasAddRows(_, _, _, _)
BiasAddRows(acc, actual, rows, j) ==
    IF j > Len(rows) THEN acc
    ELSE BiasAddRows(BiasAddRow(acc, actual, rows[j]), actual, rows, j + 1)

RECURSIVE BiasAddSnapshots(_, _, _, _)
\* for (const s of take) { ... }
BiasAddSnapshots(acc, take, rows, i) ==
    IF i > Len(take) THEN acc
    ELSE BiasAddSnapshots(BiasAddRows(acc, take[i].actual, rows, 1), take, rows, i + 1)

\* The object of biases: one entry [k |-> trimmed name, v |-> bias] per source
\* with data.
computeBiases(snapshots, currentRows, windowSize) ==
    LET take == TakeWindow(snapshots, windowSize)
        acc == BiasAddSnapshots([sum |-> <<>>, cnt |-> <<>>], take, currentRows, 1)
    IN  [i \in 1..Len(acc.sum) |->
            [k |-> acc.sum[i].k,
             v |-> Div(acc.sum[i].v, Num(MapGet(acc.cnt, acc.sum[i].k, 1)))]]

(***************************************************************************)
(* SpecBiases: computeBiases applied to any collection, rows and window.   *)
(***************************************************************************)
\* Source names as typed: empty, blank, plain, and with surrounding blanks.
SourceNames == {<<>>, <<" ">>, <<"A">>, <<" ", "A">>, <<"B">>}

BiasRows == [source : SourceNames, forecast : {Num(95), Num(96), NaN}]

\* Snapshots as the estimator reads them: with or without an outcome.
BiasSnapshots == {[id |-> "s"]} \cup {[id |-> "s", actual |-> a] : a \in {Num(94), Num(97)}}

InitBiases ==
    /\ args \in [snapshots : SeqsUpTo(BiasSnapshots, MaxSnapshots),
                 currentRows : SeqsUpTo(BiasRows, MaxRows),
                 windowSize : 0..MaxWindow]
    /\ ret = <<>>
    /\ pc = "call"
    /\ AppNotStarted

CallBiases ==
    /\ pc = "call"
    /\ ret' = computeBiases(args.snapshots, args.currentRows, args.windowSize)
    /\ pc' = "done"
    /\ UNCHANGED <<args, appVars>>

SpecBiases == InitBiases /\ [][CallBiases]_vars

\* Positions (1-based) of the snapshots the estimator takes: those with a
\* numeric actual, and with windowSize > 0 only the first windowSize of them.
TakenPositions(snapshots, windowSize) ==
    {i \in 1..Len(snapshots) :
        /\ HasActual(snapshots[i])
        /\ windowSize > 0 =>
              Cardinality({j \in 1..i : HasActual(snapshots[j])}) <= windowSize}

\* Positions of the rows that carry data for the trimmed name.
RowsNamed(rows, name) ==
    {j \in 1..Len(rows) : Trim(rows[j].source) = name /\ IsFinite(rows[j].forecast)}

RECURSIVE SumErrors(_, _, _)
\* Sum of actual - forecast over a set of <<snapshot, row>> positions.
SumErrors(P, snapshots, rows) ==
    IF P = {} THEN Zero
    ELSE LET p == CHOOSE q \in P : TRUE
         IN  Add(Sub(snapshots[p[1]].actual, rows[p[2]].forecast),
                 SumErrors(P \ {p}, snapshots, rows))

\* C4: computeBiases returns, for each non-empty trimmed source name with
\* data, the arithmetic mean of actual - forecast over the snapshots taken
\* (those with a numeric actual; the first windowSize of them in collection
\* order when windowSize > 0, all of them when windowSize = 0); a source
\* without data has no entry.
C4_BiasIsMeanSignedError ==
    pc = "done" =>
        LET T == TakenPositions(args.snapshots, args.windowSize)
            Names == {Trim(args.currentRows[j].source) : j \in 1..Len(args.currentRows)}
            Pairs(name) == T \X RowsNamed(args.currentRows, name)
        IN  /\ \A i, j \in 1..Len(ret) : ret[i].k = ret[j].k => i = j
            /\ <<>> \notin MapKeys(ret)
            /\ MapKeys(ret) = {name \in Names \ {<<>>} : Pairs(name) # {}}
            /\ \A name \in MapKeys(ret) :
                  Mul(MapGet(ret, name, NaN), Num(Cardinality(Pairs(name))))
                      = SumErrors(Pairs(name), args.snapshots, args.currentRows)

\* Witness of C4: the window keeps the first of two snapshots with an actual,
\* and a source typed with a leading blank gets the bias 97 - 95 = 2 of that
\* snapshot alone.
C4_Witness ==
    /\ pc = "done"
    /\ args.windowSize = 1
    /\ Len(args.snapshots) = 2
    /\ HasActual(args.snapshots[1]) /\ args.snapshots[1].actual = Num(97)
    /\ HasActual(args.snapshots[2]) /\ args.snapshots[2].actual = Num(94)
    /\ args.currentRows = <<[source |-> <<" ", "A">>, forecast |-> Num(95)]>>
    /\ ret = <<[k |-> <<"A">>, v |-> Num(2)]>>

\* The scenario of C5: two snapshots with actual 97, no window limit, and a
\* source with the forecasts 95 and 96.  The estimator reads forecasts from
\* the current row set alone (snapshots carry no rows), so the two forecasts
\* are two rows under the same name.
C5_Scenario ==
    /\ pc = "done"
    /\ args.windowSize = 0
    /\ Len(args.snapshots) = 2
    /\ \A i \in 1..2 : HasActual(args.snapshots[i]) /\ args.snapshots[i].actual = Num(97)
    /\ args.currentRows = <<[source |-> <<"A">>, forecast |-> Num(95)],
                            [source |-> <<"A">>, forecast |-> Num(96)]>>

\* C5 as stated: in that scenario the source's bias is +2.
C5_Original_BiasIsTwo == C5_Scenario => MapGet(ret, <<"A">>, NaN) = Num(2)

\* C5 (amended): in that scenario the source's bias is the mean of the signed
\* errors 97 - 95 and 97 - 96, which is +1.5.
C5_BiasIsOneAndAHalf == C5_Scenario => ret = <<[k |-> <<"A">>, v |-> Rat(3, 2)]>>

\* Witness of C5: the scenario has been run.
C5_Witness == C5_Scenario /\ MapGet(ret, <<"A">>, NaN) = Rat(3, 2)

(***************************************************************************)
(* Weight resolver (auto-weights).                                         *)
(***************************************************************************)
\* null, and an object holding entries [k, v] (an empty object is not null).
Null == [null |-> TRUE]
Obj(entries) == [entries |-> entries]
IsNull(x) == "null" \in DOMAIN x

eps == Rat(1, 2)

MaxNum(a, b) == IF Leq(b, a) THEN a ELSE b

\* Mutant of Score: the error itself, not its inverse.
Score_notInverse(mae) == Add(MaxNum(Zero, mae), eps)

\* 1 / (Math.max(0, r.mae) + eps)
Score(mae) == Div(One, Add(MaxNum(Zero, mae), eps))

RECURSIVE ScoresOf(_, _, _)
\* perSourceStats.forEach((r) => { scores[r.source] = s })
ScoresOf(scores, stats, i) ==
    IF i > Len(stats) THEN scores
    ELSE ScoresOf(MapSet(scores, stats[i].source, Score(stats[i].mae)), stats, i + 1)

calculateAutoWeights(perSourceStats, useAutoWeights) ==
    IF ~useAutoWeights THEN Null
    ELSE IF Len(perSourceStats) = 0 THEN Null
    ELSE LET scores == ScoresOf(<<>>, perSourceStats, 1)
             sum == SumSeq([i \in 1..Len(scores) |-> scores[i].v])
         IN  IF ~IsFinite(sum) \/ Leq(sum, Zero) THEN Null
             ELSE Obj([i \in 1..Len(scores) |->
                          [k |-> scores[i].k, v |-> Div(scores[i].v, sum)]])

(***************************************************************************)
(* SpecAutoWeights: calculateAutoWeights applied to per-source statistics  *)
(* as calculatePerSourceStats delivers them: one entry per source, sorted  *)
(* by ascending mae, mae >= 0.                                             *)
(***************************************************************************)
StatSources == {<<"A">>, <<"B">>, <<"C">>}
Maes == {Zero, Rat(1, 2), One, Rat(3, 2), Num(2)}

PerSourceStats ==
    {st \in SeqsUpTo([source : StatSources, mae : Maes], MaxStats) :
        /\ \A i, j \in 1..Len(st) : st[i].source = st[j].source => i = j
        /\ \A i \in 1..(Len(st) - 1) : Leq(st[i].mae, st[i + 1].mae)}

InitAutoWeights ==
    /\ args \in [perSourceStats : PerSourceStats, useAutoWeights : BOOLEAN]
    /\ ret = Null
    /\ pc = "call"
    /\ AppNotStarted

CallAutoWeights ==
    /\ pc = "call"
    /\ ret' = calculateAutoWeights(args.perSourceStats, args.useAutoWeights)
    /\ pc' = "done"
    /\ UNCHANGED <<args, appVars>>

SpecAutoWeights == InitAutoWeights /\ [][CallAutoWeights]_vars

\* What C6 says of a returned map, with the figures of its example left open:
\* each source's weight is (1/(mae+0.5)) over the sum of these scores, every
\* weight is > 0, the weights sum to 1, a source with strictly lower mae never
\* has a lower weight than one with higher mae, and mae 0 against mae 1.5
\* gives the scores 2 and score2 and the weights w1 and w2.
AutoWeightsClaim(score2, w1, w2) ==
    (pc = "done" /\ ~IsNull(ret)) =>
        LET st == args.perSourceStats
            w == ret.entries
            raw(i) == Div(One, Add(st[i].mae, Rat(1, 2)))
            total == SumSeq([i \in 1..Len(st) |-> raw(i)])
            weight(i) == MapGet(w, st[i].source, NaN)
        IN  /\ MapKeys(w) = {st[i].source : i \in 1..Len(st)}
            /\ Len(w) = Len(st)
            /\ \A i \in 1..Len(st) : weight(i) = Div(raw(i), total)
            /\ \A i \in 1..Len(st) : Gt(weight(i), Zero)
            /\ SumSeq([i \in 1..Len(w) |-> w[i].v]) = One
            /\ \A i, j \in 1..Len(st) :
                  Lt(st[i].mae, st[j].mae) => Leq(weight(j), weight(i))
            /\ (Len(st) = 2 /\ st[1].mae = Zero /\ st[2].mae = Rat(3, 2)) =>
                  /\ raw(1) = Num(2)
                  /\ raw(2) = score2
                  /\ weight(1) = w1
                  /\ weight(2) = w2

\* C6 as stated: ... for two sources with mae 0 and mae 1.5 the raw scores are
\* 2.0 and 0.4 and the weights are 5/6 and 1/6.  Fails: 1/(1.5+0.5) is 0.5.
C6_Original_ScoresTwoAndFourTenths == AutoWeightsClaim(Rat(4, 10), Rat(5, 6), Rat(1, 6))

\* C6 (amended): when calculateAutoWeights returns a map, every weight equals
\* (1/(mae+0.5)) divided by the sum of those scores, all weights are > 0 and
\* sum to 1, a source with strictly lower mae never gets a lower weight than
\* one with higher mae, and for two sources with mae 0 and mae 1.5 the raw
\* scores are 2.0 and 0.5 and the weights are 0.8 and 0.2 (the scores 2.0 and
\* 0.4 and the weights 5/6 and 1/6 are those of mae 0 and mae 2.0).
C6_AutoWeightsNormalizedInverseMae ==
    /\ AutoWeightsClaim(Rat(1, 2), Rat(4, 5), Rat(1, 5))
    /\ (/\ pc = "done"
        /\ ~IsNull(ret)
        /\ Len(args.perSourceStats) = 2
        /\ args.perSourceStats[1].mae = Zero
        /\ args.perSourceStats[2].mae = Num(2)) =>
            /\ Score(args.perSourceStats[2].mae) = Rat(4, 10)
            /\ ret.entries[1].v = Rat(5, 6)
            /\ ret.entries[2].v = Rat(1, 6)

\* Witness of C6: a source without error and one with mae 1.5 have been
\* weighted 0.8 and 0.2.
C6_Witness ==
    /\ pc = "done"
    /\ args.useAutoWeights
    /\ args.perSourceStats = <<[source |-> <<"A">>, mae |-> Zero],
                               [source |-> <<"B">>, mae |-> Rat(3, 2)]>>
    /\ ret = Obj(<<[k |-> <<"A">>, v |-> Rat(4, 5)], [k |-> <<"B">>, v |-> Rat(1, 5)]>>)

(***************************************************************************)
(* Prior blender.                                                          *)
(***************************************************************************)
RECURSIVE FindById(_, _, _)
\* snapshots.find((s) => s.id === id): the 1-based position of the first
\* snapshot with that id, 0 when there is none.
FindById(snapshots, id, i) ==
    IF i > Len(snapshots) THEN 0
    ELSE IF snapshots[i].id = id THEN i
    ELSE FindById(snapshots, id, i + 1)

\* Mutant of SameLabels: only the lengths are compared.
SameLabels_lengthOnly(snapScheme, scheme) == Len(snapScheme) = Len(scheme)

\* sameLength && snap.scheme.every((b, i) => b.label === scheme[i].label)
SameLabels(snapScheme, scheme) ==
    /\ Len(snapScheme) = Len(scheme)
    /\ \A i \in 1..Len(snapScheme) : snapScheme[i].label = scheme[i].label

\* prior[i] || 0, i a 1-based position
PriorAt(prior, i) ==
    IF i \in 1..Len(prior) /\ ~IsNaN(prior[i]) THEN prior[i] ELSE Zero

\* Mutant of Blend: the blended vector is returned without re-normalizing.
Blend_unnormalized(baseProbs, prior) ==
    [i \in 1..Len(baseProbs) |->
        Add(Mul(Rat(1, 2), baseProbs[i]), Mul(Rat(1, 2), PriorAt(prior, i)))]

\* out = 0.5 * fresh + 0.5 * prior, divided by its sum (|| 1)
Blend(baseProbs, prior) ==
    LET out == [i \in 1..Len(baseProbs) |->
                   Add(Mul(Rat(1, 2), baseProbs[i]), Mul(Rat(1, 2), PriorAt(prior, i)))]
        sum == SumSeq(out)
        s == IF sum = Zero THEN One ELSE sum
    IN  [i \in 1..Len(out) |-> Div(out[i], s)]

calculateBlendedProbs(usePrior, priorId, baseProbs, snapshots, scheme) ==
    IF ~usePrior \/ priorId = "" THEN baseProbs
    ELSE LET at == FindById(snapshots, priorId, 1)
         IN  IF at = 0 THEN baseProbs
             ELSE IF ~SameLabels(snapshots[at].scheme, scheme) THEN baseProbs
             ELSE Blend(baseProbs, snapshots[at].probs)

(***************************************************************************)
(* SpecBlendedProbs: calculateBlendedProbs applied to a fresh distribution *)
(* over the current scheme and a collection of saved snapshots.            *)
(***************************************************************************)
SchemeOne == <<[label |-> "<=91", max |-> Infinity]>>
SchemeTwo == <<[label |-> "<=91", max |-> Num(91)], [label |-> "92+", max |-> Infinity]>>
\* the labels of SchemeTwo over another threshold
SchemeTwoMoved == <<[label |-> "<=91", max |-> Num(93)], [label |-> "92+", max |-> Infinity]>>
\* the thresholds of SchemeTwo under another label
SchemeTwoRenamed == <<[label |-> "<=91", max |-> Num(91)], [label |-> "high", max |-> Infinity]>>

\* The fresh distribution has one entry per bracket of the current scheme.
FreshInputs ==
    {[scheme |-> SchemeOne, baseProbs |-> <<p>>] : p \in {Zero, One}}
    \cup {[scheme |-> SchemeTwo, baseProbs |-> bp] :
             bp \in {<<Zero, Zero>>, <<One, Zero>>, <<Rat(3, 10), Rat(7, 10)>>}}

\* Saved distributions.  A snapshot's probs can be longer or shorter than its
\* scheme: closing the scheme editor rewrites the scheme of the snapshot last
\* loaded and leaves its probs alone.
SavedProbs == {<<One>>, <<Zero, Zero>>, <<Rat(1, 2), Rat(1, 2)>>, <<Rat(1, 2), Rat(1, 4), Rat(1, 4)>>}

BlendSnapshots ==
    [id : {"s1", "s2"},
     scheme : {SchemeOne, SchemeTwoMoved, SchemeTwoRenamed},
     probs : SavedProbs]

InitBlendedProbs ==
    /\ \E f \in FreshInputs, usePrior \in BOOLEAN, priorId \in {"", "s1"},
          snapshots \in SeqsUpTo(BlendSnapshots, MaxSnapshots) :
            args = [usePrior |-> usePrior, priorId |-> priorId, baseProbs |-> f.baseProbs,
                    snapshots |-> snapshots, scheme |-> f.scheme]
    /\ ret = <<>>
    /\ pc = "call"
    /\ AppNotStarted

CallBlendedProbs ==
    /\ pc = "call"
    /\ ret' = calculateBlendedProbs(args.usePrior, args.priorId, args.baseProbs,
                                    args.snapshots, args.scheme)
    /\ pc' = "done"
    /\ UNCHANGED <<args, appVars>>

SpecBlendedProbs == InitBlendedProbs /\ [][CallBlendedProbs]_vars

\* The snapshots of the collection that carry the prior id.
WithPriorId == {i \in 1..Len(args.snapshots) : args.snapshots[i].id = args.priorId}

\* The prior snapshot: the first one with the prior id.
PriorSnapshot == args.snapshots[CHOOSE i \in WithPriorId : \A j \in WithPriorId : i <= j]

SchemesDiffer(a, b) ==
    \/ Len(a) # Len(b)
    \/ \E i \in 1..Len(a) : a[i].label # b[i].label

\* C7: calculateBlendedProbs returns the input distribution itself whenever
\* the prior is disabled, the prior id is empty, no snapshot has that id, or
\* the prior snapshot's scheme differs from the current scheme in length or
\* in a label at some position.
C7_IdentityWithoutUsablePrior ==
    pc = "done" =>
        ((\/ ~args.usePrior
          \/ args.priorId = ""
          \/ WithPriorId = {}
          \/ SchemesDiffer(PriorSnapshot.scheme, args.scheme)) => ret = args.baseProbs)

\* Witness of C7: an enabled prior of the right length and thresholds but
\* with another label in the second bracket, whose probs differ from the
\* fresh distribution, has been ignored.
C7_Witness ==
    /\ pc = "done"
    /\ args.usePrior
    /\ WithPriorId # {}
    /\ args.scheme = SchemeTwo
    /\ PriorSnapshot.scheme = SchemeTwoRenamed
    /\ PriorSnapshot.probs = <<Rat(1, 2), Rat(1, 2)>>
    /\ args.baseProbs = <<One, Zero>>
    /\ ret = <<One, Zero>>

\* The prior is enabled, found and scheme-compatible.
PriorApplies ==
    /\ args.usePrior
    /\ args.priorId # ""
    /\ WithPriorId # {}
    /\ ~SchemesDiffer(PriorSnapshot.scheme, args.scheme)

AllZero(v) == \A i \in 1..Len(v) : v[i] = Zero

\* What C8 says of the blend of fresh and prior into result.
BlendClaim(fresh, prior, result) ==
    LET avg == [i \in 1..Len(fresh) |-> Div(Add(fresh[i], PriorAt(prior, i)), Num(2))]
        total == SumSeq(avg)
    IN  /\ result = [i \in 1..Len(fresh) |->
                        Div(avg[i], IF total = Zero THEN One ELSE total)]
        /\ ~(AllZero(fresh) /\ AllZero(prior)) => SumSeq(result) = One
        /\ (SumSeq(fresh) = One /\ SumSeq(prior) = One) => result = avg

\* C8: when the prior is enabled, found and scheme-compatible, the result is
\* (0.5*fresh[i] + 0.5*prior[i]) divided by the sum of that vector (by 1 when
\* the sum is 0); so it sums to 1 unless fresh and prior are both all-zero,
\* and it is the plain element-wise average when fresh and prior each sum
\* to 1.
C8_BlendIsNormalizedAverage ==
    (pc = "done" /\ PriorApplies) => BlendClaim(args.baseProbs, PriorSnapshot.probs, ret)

\* The same, for priors that have no more entries than the fresh distribution
\* (one per bracket, as a snapshot has when it is saved): there C8 holds.
BlendOfWellFormedPrior ==
    (pc = "done" /\ PriorApplies /\ Len(PriorSnapshot.probs) <= Len(args.baseProbs)) =>
        BlendClaim(args.baseProbs, PriorSnapshot.probs, ret)

(***************************************************************************)
(* Accuracy scorer.                                                        *)
(***************************************************************************)
\* Mutant of bracketContainsActual: the lower threshold belongs to the bracket.
bracketContainsActual_closedBelow(scheme, idx, t) ==
    IF idx < 0 \/ idx >= Len(scheme) THEN FALSE
    ELSE LET hi == At(scheme, idx).max
             lo == IF idx > 0 THEN At(scheme, idx - 1).max ELSE NegInfinity
         IN  IF ~IsFinite(t) THEN FALSE
             ELSE Leq(t, hi) /\ Leq(lo, t)

\* Mutant of bracketContainsActual: the upper threshold is outside the bracket.
bracketContainsActual_openAbove(scheme, idx, t) ==
    IF idx < 0 \/ idx >= Len(scheme) THEN FALSE
    ELSE LET hi == At(scheme, idx).max
             lo == IF idx > 0 THEN At(scheme, idx - 1).max ELSE NegInfinity
         IN  IF ~IsFinite(t) THEN FALSE
             ELSE Lt(t, hi) /\ Gt(t, lo)

\* val <= hi && val > lo, idx a 0-based bracket index
bracketContainsActual(scheme, idx, t) ==
    IF idx < 0 \/ idx >= Len(scheme) THEN FALSE
    ELSE LET hi == At(scheme, idx).max
             lo == IF idx > 0 THEN At(scheme, idx - 1).max ELSE NegInfinity
         IN  IF ~IsFinite(t) THEN FALSE
             ELSE Leq(t, hi) /\ Gt(t, lo)

\* typeof s.actual === "number" && Array.isArray(s.probs) &&
\* Array.isArray(s.scheme) && s.scheme.length > 0
IsScored(s) ==
    /\ HasActual(s)
    /\ "probs" \in DOMAIN s
    /\ "scheme" \in DOMAIN s
    /\ Len(s.scheme) > 0

\* Number(p) || 0
NumberOrZero(p) == IF IsNaN(p) THEN Zero ELSE p

RECURSIVE MaxIdx_lastWins(_, _, _, _)
\* Mutant of MaxIdx: on a tie the later index wins.
MaxIdx_lastWins(probs, i, maxIdx, maxVal) ==
    IF i >= Len(probs) THEN maxIdx
    ELSE LET v == NumberOrZero(At(probs, i))
         IN  IF ~Lt(v, maxVal) THEN MaxIdx_lastWins(probs, i + 1, i, v)
             ELSE MaxIdx_lastWins(probs, i + 1, maxIdx, maxVal)

RECURSIVE MaxIdx(_, _, _, _)
\* for (let i = 0; i < probs.length; i++) if (v > maxVal) { maxVal = v; maxIdx = i }
MaxIdx(probs, i, maxIdx, maxVal) ==
    IF i >= Len(probs) THEN maxIdx
    ELSE LET v == NumberOrZero(At(probs, i))
         IN  IF Gt(v, maxVal) THEN MaxIdx(probs, i + 1, i, v)
             ELSE MaxIdx(probs, i + 1, maxIdx, maxVal)

\* maxIdx >= 0 && bracketContainsActual(s.scheme, maxIdx, s.actual)
IsCorrect(s) ==
    LET maxIdx == MaxIdx(s.probs, 0, -1, NegInfinity)
    IN  maxIdx >= 0 /\ bracketContainsActual(s.scheme, maxIdx, s.actual)

RECURSIVE CountCorrect(_, _)
\* for (const s of withActual) { ...; correct++ }
CountCorrect(withActual, i) ==
    IF i > Len(withActual) THEN 0
    ELSE (IF IsCorrect(withActual[i]) THEN 1 ELSE 0) + CountCorrect(withActual, i + 1)

\* (correct / n) * 100
Percent(correct, n) == Mul(Div(Num(correct), Num(n)), Num(100))

calculateAccuracy(snapshots) ==
    LET withActual == SelectSeq(snapshots, IsScored)
        total == Len(withActual)
        correct == CountCorrect(withActual, 1)
    IN  [correct |-> correct, total |-> total,
         pct |-> IF total # 0 THEN Percent(correct, total) ELSE Zero]

RECURSIVE InsertBySavedAt(_, _)
\* s placed after every element that is not later than it
InsertBySavedAt(sorted, s) ==
    IF sorted = <<>> THEN <<s>>
    ELSE IF Head(sorted).savedAt <= s.savedAt
         THEN <<Head(sorted)>> \o InsertBySavedAt(Tail(sorted), s)
         ELSE <<s>> \o sorted

RECURSIVE SortBySavedAt(_)
\* .sort((a, b) => time(a.savedAt) - time(b.savedAt)): ascending and stable
SortBySavedAt(arr) ==
    IF arr = <<>> THEN <<>>
    ELSE InsertBySavedAt(SortBySavedAt(SubSeq(arr, 1, Len(arr) - 1)), arr[Len(arr)])

RECURSIVE ReduceBest(_, _, _)
\* probs.reduce((best, v, i2) => (Number(v) > Number(probs[best]) ? i2 : best), 0)
ReduceBest(probs, i2, best) ==
    IF i2 >= Len(probs) THEN best
    ELSE IF Gt(At(probs, i2), At(probs, best)) THEN ReduceBest(probs, i2 + 1, i2)
    ELSE ReduceBest(probs, i2 + 1, best)

\* isCorrect of the trend
TrendIsCorrect(s) ==
    LET maxIdx == ReduceBest(s.probs, 0, 0)
    IN  maxIdx >= 0 /\ bracketContainsActual(s.scheme, maxIdx, s.actual)

\* x.toFixed(1) read back as a number, x finite and not negative: the nearest
\* tenth, the larger one of two equally near
ToFixed1(x) == Rat((20 * x.n + x.d) \div (2 * x.d), 10)

\* new Date(savedAt).toLocaleDateString(): the day of the instant; savedAt
\* counts half days
LocaleDate(savedAt) == savedAt \div 2

RECURSIVE TrendPoints(_, _, _)
\* withActual.map((s, i) => ...), correct the running count before s
TrendPoints(withActual, i, correct) ==
    IF i > Len(withActual) THEN <<>>
    ELSE LET c == correct + (IF TrendIsCorrect(withActual[i]) THEN 1 ELSE 0)
         IN  <<[t |-> LocaleDate(withActual[i].savedAt), acc |-> ToFixed1(Percent(c, i))]>>
             \o TrendPoints(withActual, i + 1, c)

calculateAccuracyTrendData(snapshots) ==
    TrendPoints(SortBySavedAt(SelectSeq(snapshots, IsScored)), 1, 0)

(***************************************************************************)
(* SpecAccuracy: calculateAccuracy, then calculateAccuracyTrendData, of    *)
(* one collection of snapshots.                                            *)
(***************************************************************************)
SchemeThree == <<Bracket(Num(91)), Bracket(Num(93)), Bracket(Infinity)>>

\* The fields a stored snapshot may lack, and the values of those it has.  An
\* imported or stored snapshot can carry an empty probs or scheme array.
ScoredActuals == {<<>>} \cup {[actual |-> a] : a \in {Num(91), Num(93)}}
ScoredProbs ==
    {<<>>} \cup {[probs |-> p] :
                    p \in {<<>>, <<Rat(1, 10), Rat(6, 10), Rat(3, 10)>>, <<Rat(1, 2), Rat(1, 2), Zero>>}}
ScoredSchemes == {[scheme |-> <<>>], [scheme |-> SchemeThree]}

ScoredSnapshots ==
    {[id |-> "s", savedAt |-> t] @@ a @@ p @@ sch :
        t \in 1..2, a \in ScoredActuals, p \in ScoredProbs, sch \in ScoredSchemes}

InitAccuracy ==
    /\ args \in [snapshots : SeqsUpTo(ScoredSnapshots, MaxSnapshots)]
    /\ ret = <<>>
    /\ pc = "call"
    /\ AppNotStarted

CallAccuracy ==
    /\ pc = "call"
    /\ ret' = [accuracy |-> calculateAccuracy(args.snapshots)]
    /\ pc' = "scored"
    /\ UNCHANGED <<args, appVars>>

CallAccuracyTrendData ==
    /\ pc = "scored"
    /\ ret' = [accuracy |-> ret.accuracy, trend |-> calculateAccuracyTrendData(args.snapshots)]
    /\ pc' = "done"
    /\ UNCHANGED <<args, appVars>>

NextAccuracy == CallAccuracy \/ CallAccuracyTrendData

SpecAccuracy == InitAccuracy /\ [][NextAccuracy]_vars

\* The 0-based first index of the largest entry of a non-empty probs.
FirstMaxIndex(probs) ==
    (CHOOSE i \in 1..Len(probs) :
        /\ \A j \in 1..Len(probs) : Leq(probs[j], probs[i])
        /\ \A j \in 1..(i - 1) : Lt(probs[j], probs[i])) - 1

\* Positions of the snapshots with a numeric actual, a probs array that, when
\* nonEmpty, has an entry, and a non-empty scheme.
CountedPositions(snapshots, nonEmpty) ==
    {i \in 1..Len(snapshots) :
        /\ HasActual(snapshots[i])
        /\ "probs" \in DOMAIN snapshots[i]
        /\ nonEmpty => snapshots[i].probs # <<>>
        /\ "scheme" \in DOMAIN snapshots[i]
        /\ snapshots[i].scheme # <<>>}

\* Those of the positions whose top bracket contains the actual.
CorrectPositions(snapshots, positions) ==
    {i \in positions :
        /\ snapshots[i].probs # <<>>
        /\ bracketContainsActual(snapshots[i].scheme, FirstMaxIndex(snapshots[i].probs),
                                 snapshots[i].actual)}

\* What C9 says of the result, counting the given positions.
AccuracyClaim(snapshots, positions, result) ==
    LET total == Cardinality(positions)
        correct == Cardinality(CorrectPositions(snapshots, positions))
    IN  /\ result.total = total
        /\ result.correct = correct
        /\ result.pct = (IF total = 0 THEN Zero ELSE Percent(correct, total))

\* The example of C9: probs [0.1, 0.6, 0.3] over maxes [91, 93, +inf] with
\* actual 93.
ExampleSnapshot(s) ==
    /\ IsScored(s)
    /\ s.actual = Num(93)
    /\ s.probs = <<Rat(1, 10), Rat(6, 10), Rat(3, 10)>>
    /\ s.scheme = SchemeThree

\* C9 as claimed: calculateAccuracy counts in total exactly the snapshots with
\* a numeric actual, a non-empty probs and a non-empty scheme, in correct
\* those of them whose first maximum-probability bracket contains the actual,
\* and returns pct = correct/total*100, or 0 when total is 0.
C9_Original_TotalNeedsNonEmptyProbs ==
    pc # "call" =>
        AccuracyClaim(args.snapshots, CountedPositions(args.snapshots, TRUE), ret.accuracy)

\* C9, amended: calculateAccuracy counts in total exactly the snapshots with a
\* numeric actual, a probs array (empty or not) and a non-empty scheme; counts
\* one of them in correct iff its probs is non-empty and its first
\* maximum-probability bracket contains the actual; and returns
\* pct = correct/total*100, or 0 when total is 0.  The example snapshot alone
\* scores 1 of 1, 100%.
C9_AccuracyCountsProbsArrays ==
    pc # "call" =>
        /\ AccuracyClaim(args.snapshots, CountedPositions(args.snapshots, FALSE), ret.accuracy)
        /\ (Len(args.snapshots) = 1 /\ ExampleSnapshot(args.snapshots[1])) =>
               ret.accuracy = [correct |-> 1, total |-> 1, pct |-> Num(100)]

\* Witness of C9: the example snapshot, counted correct, next to a snapshot
\* with an empty probs, counted in total and not in correct.
C9_Witness ==
    /\ pc = "scored"
    /\ Len(args.snapshots) = 2
    /\ ExampleSnapshot(args.snapshots[1])
    /\ IsScored(args.snapshots[2])
    /\ args.snapshots[2].probs = <<>>
    /\ ret.accuracy = [correct |-> 1, total |-> 2, pct |-> Num(50)]

\* C10 as claimed: the trend has one point per snapshot that calculateAccuracy
\* counts, in ascending savedAt order, and its last point's acc is
\* calculateAccuracy's pct to one decimal.
C10_TrendEndsAtAccuracy ==
    pc = "done" =>
        /\ Len(ret.trend) = ret.accuracy.total
        /\ \A k \in 1..(Len(ret.trend) - 1) : ret.trend[k].t <= ret.trend[k + 1].t
        /\ ret.trend # <<>> => ret.trend[Len(ret.trend)].acc = ToFixed1(ret.accuracy.pct)

\* The same for collections whose counted snapshots all have a non-empty
\* probs: there the two scorers agree.
TrendEndsAtAccuracyOfNonEmptyProbs ==
    (pc = "done" /\ \A i \in CountedPositions(args.snapshots, FALSE) :
                        args.snapshots[i].probs # <<>>) =>
        /\ Len(ret.trend) = ret.accuracy.total
        /\ ret.trend # <<>> => ret.trend[Len(ret.trend)].acc = ToFixed1(ret.accuracy.pct)

(***************************************************************************)
(* SpecPartition: bracketContainsActual asked of every index of a scheme,  *)
(* out-of-range ones included, then findBracket of the same value.         *)
(***************************************************************************)
InitPartition ==
    /\ args \in [scheme : Schemes, t : Temperatures \cup {Infinity, NegInfinity, NaN}]
    /\ ret = <<>>
    /\ pc = "call"
    /\ AppNotStarted

CallBracketContainsActual ==
    /\ pc = "call"
    /\ ret' = [covers |-> [idx \in -1..Len(args.scheme) |->
                              bracketContainsActual(args.scheme, idx, args.t)]]
    /\ pc' = "covered"
    /\ UNCHANGED <<args, appVars>>

CallFindBracketOfSame ==
    /\ pc = "covered"
    /\ ret' = [covers |-> ret.covers, bracket |-> findBracket(args.scheme, args.t)]
    /\ pc' = "done"
    /\ UNCHANGED <<args, appVars>>

NextPartition == CallBracketContainsActual \/ CallFindBracketOfSame

SpecPartition == InitPartition /\ [][NextPartition]_vars

\* C11: bracketContainsActual(scheme, idx, value) is true iff
\* 0 <= idx < |scheme|, value is finite and
\* scheme[idx-1].max < value <= scheme[idx].max (-infinity below bracket 0);
\* it is false for every out-of-range idx and every non-finite value.
C11_ContainsIffInHalfOpenInterval ==
    pc # "call" =>
        LET s == args.scheme
            v == args.t
            lower(idx) == IF idx = 0 THEN NegInfinity ELSE s[idx].max
        IN  /\ \A idx \in DOMAIN ret.covers :
                  ret.covers[idx] <=>
                      /\ 0 <= idx
                      /\ idx < Len(s)
                      /\ IsFinite(v)
                      /\ Lt(lower(idx), v)
                      /\ Leq(v, s[idx + 1].max)
            /\ ~ret.covers[-1]
            /\ ~ret.covers[Len(s)]
            /\ ~IsFinite(v) => \A idx \in DOMAIN ret.covers : ~ret.covers[idx]

\* Witness of C11: the value 93 on the threshold of bracket 1 is in bracket 1
\* and not in bracket 0, 2 or out of range.
C11_Witness ==
    /\ pc = "covered"
    /\ args.scheme = SchemeThree
    /\ args.t = Num(93)
    /\ ret.covers[1]
    /\ ~ret.covers[0]
    /\ ~ret.covers[2]
    /\ ~ret.covers[3]

\* C12: on a non-empty scheme with strictly increasing max whose last max is
\* +infinity, a finite value is contained in exactly one bracket, and that
\* bracket is findBracket's.
C12_BracketsPartitionTheLine ==
    (/\ pc = "done"
     /\ args.scheme # <<>>
     /\ StrictlyIncreasing(args.scheme)
     /\ args.scheme[Len(args.scheme)].max = Infinity
     /\ IsFinite(args.t)) =>
        {idx \in DOMAIN ret.covers : ret.covers[idx]} = {ret.bracket}

\* Witness of C12: 91, the threshold between brackets 0 and 1 of a
\* three-bracket scheme, is in bracket 0 alone, which is findBracket's.
C12_Witness ==
    /\ pc = "done"
    /\ args.scheme = SchemeThree
    /\ args.t = Num(91)
    /\ ret.bracket = 0
    /\ {idx \in DOMAIN ret.covers : ret.covers[idx]} = {0}

(***************************************************************************)
(* Per-source statistics.                                                  *)
(***************************************************************************)
\* Math.abs
AbsNum(x) == [n |-> Abs(x.n), d |-> x.d]

\* The body of currentRows.forEach in calculatePerSourceStats; acc = [sum, cnt].
StatsAddRow(acc, actual, r) ==
    LET name == Trim(r.source)
        fc == r.forecast
    IN  IF name = <<>> \/ ~IsFinite(fc) THEN acc
        ELSE [sum |-> MapSet(acc.sum, name, Add(MapGet(acc.sum, name, Zero), AbsNum(Sub(actual, fc)))),
              cnt |-> MapSet(acc.cnt, name, MapGet(acc.cnt, name, 0) + 1)]

RECURSIVE StatsAddRows(_, _, _, _)
StatsAddRows(acc, actual, rows, j) ==
    IF j > Len(rows) THEN acc
    ELSE StatsAddRows(StatsAddRow(acc, actual, rows[j]), actual, rows, j + 1)

RECURSIVE StatsAddSnapshots(_, _, _, _)
\* for (const s of withActual) { ... }
StatsAddSnapshots(acc, withActual, rows, i) ==
    IF i > Len(withActual) THEN acc
    ELSE StatsAddSnapshots(StatsAddRows(acc, withActual[i].actual, rows, 1), withActual, rows, i + 1)

RECURSIVE InsertByMae(_, _)
InsertByMae(sorted, r) ==
    IF sorted = <<>> THEN <<r>>
    ELSE IF Leq(Head(sorted).mae, r.mae) THEN <<Head(sorted)>> \o InsertByMae(Tail(sorted), r)
    ELSE <<r>> \o sorted

RECURSIVE SortByMae(_)
\* rows.sort((a, b) => a.mae - b.mae): ascending and stable
SortByMae(arr) ==
    IF arr = <<>> THEN <<>>
    ELSE InsertByMae(SortByMae(SubSeq(arr, 1, Len(arr) - 1)), arr[Len(arr)])

\* The rows of statistics, with their source, n and mae (the shares within
\* 1, 2 and 3 degrees are for display only).
calculatePerSourceStats(snapshots, currentRows) ==
    LET acc == StatsAddSnapshots([sum |-> <<>>, cnt |-> <<>>], WithActual(snapshots), currentRows, 1)
    IN  SortByMae([i \in 1..Len(acc.cnt) |->
            LET name == acc.cnt[i].k
                n == acc.cnt[i].v
            IN  [source |-> name, n |-> n,
                 mae |-> Div(MapGet(acc.sum, name, Zero), Num(n))]])

(***************************************************************************)
(* The render of BracketCalculator: from the rows, the scheme, the         *)
(* snapshots of the active tab and the settings to blendedProbs.           *)
(***************************************************************************)
\* map[r.source] ?? 0: the lookup is by the source as typed
WeightFrom(map, r) == MapGet(map.entries, r.source, Zero)

effectiveRows(rows, autoWeights, override, autoWeightsMap) ==
    IF ~autoWeights THEN rows
    ELSE LET map == IF ~IsNull(override) THEN override ELSE autoWeightsMap
         IN  IF IsNull(map) THEN rows
             ELSE [i \in 1..Len(rows) |-> [rows[i] EXCEPT !.weight = WeightFrom(map, rows[i])]]

\* Number(x) || 0
NumberOr0(x) == IF IsNaN(x) THEN Zero ELSE x

totalWeight(rows) == SumSeq([i \in 1..Len(rows) |-> NumberOr0(rows[i].weight)])

normalizedRows(rows) ==
    LET total == totalWeight(rows)
        tw == IF total = Zero THEN One ELSE total
    IN  [i \in 1..Len(rows) |->
            [source |-> rows[i].source, forecast |-> rows[i].forecast,
             nWeight |-> Div(NumberOr0(rows[i].weight), tw)]]

\* Mutant of ClampBias: the bias is applied as estimated.
ClampBias_unclamped(bias) == bias

\* Math.max(-5, Math.min(5, bias))
ClampBias(bias) ==
    IF Lt(bias, Num(-5)) THEN Num(-5) ELSE IF Gt(bias, Num(5)) THEN Num(5) ELSE bias

\* Number.isFinite(biases[r.source]) ? biases[r.source] : 0
BiasOf(biases, r) ==
    LET bias == MapGet(biases, r.source, Zero)
    IN  IF IsFinite(bias) THEN bias ELSE Zero

adjustedRows(rows, withBias, biases) ==
    [i \in 1..Len(rows) |->
        [source |-> rows[i].source, forecast |-> rows[i].forecast, nWeight |-> rows[i].nWeight,
         adjForecast |-> IF ~withBias THEN rows[i].forecast
                         ELSE IF IsFinite(rows[i].forecast)
                              THEN Add(rows[i].forecast, ClampBias(BiasOf(biases, rows[i])))
                              ELSE rows[i].forecast]]

\* blendedProbs of a render with the given rows and snapshots
blendedProbs(rows, snapshots, a) ==
    LET biases == computeBiases(snapshots, rows, a.biasWindow)
        perSourceStats == calculatePerSourceStats(snapshots, rows)
        autoWeightsMap == calculateAutoWeights(perSourceStats, a.useAutoWeights)
        eff == effectiveRows(rows, a.useAutoWeights, a.autoWeightsOverride, autoWeightsMap)
        adj == adjustedRows(normalizedRows(eff), a.useBias, biases)
        baseProbs == calculateBaseProbs(adj, a.scheme)
    IN  calculateBlendedProbs(a.usePrior, a.priorId, baseProbs, snapshots, a.scheme)

(***************************************************************************)
(* The application: BracketCalculator (App.jsx) over its store.            *)
(***************************************************************************)
MaxClock == 3   \* last clock reading at which the user acts

\* Two of the tabs; KAUS is the first and the default one.
tabs == {"KAUS", "KMIA"}

ConfigId == "tab_sources_config"

\* defaultScheme, cut to three brackets
DefaultScheme == SchemeThree

\* defaultRows.map((row, index) => ({ ...row, id: index + 1 })), cut to one row
DefaultRows == <<[id |-> 1, source |-> <<"A">>, forecast |-> Num(96), weight |-> One]>>

\* JSON.stringify followed by JSON.parse: a number that is not finite comes
\* back as null, a field that is undefined does not come back.
JsonNumber(x) == IF IsNull(x) THEN x ELSE IF IsFinite(x) THEN x ELSE Null

JsonScheme(sch) ==
    [i \in 1..Len(sch) |-> [label |-> sch[i].label, max |-> JsonNumber(sch[i].max)]]

JsonSnapshot(s) ==
    [f \in DOMAIN s |->
        IF f = "scheme" THEN JsonScheme(s[f])
        ELSE IF f = "probs" THEN [i \in 1..Len(s[f]) |-> JsonNumber(s[f][i])]
        ELSE s[f]]

JsonRow(r) ==
    [id |-> r.id, source |-> r.source, forecast |-> JsonNumber(r.forecast),
     weight |-> JsonNumber(r.weight)]

\* A tab is an object {rows, snapshots}, or (old data) a bare array.
IsTabObject(info) == "snapshots" \in DOMAIN info

JsonTabInfo(info) ==
    IF IsTabObject(info)
    THEN [rows |-> [i \in 1..Len(info.rows) |-> JsonRow(info.rows[i])],
          snapshots |-> [i \in 1..Len(info.snapshots) |-> JsonSnapshot(info.snapshots[i])]]
    ELSE [array |-> [i \in 1..Len(info.array) |-> JsonSnapshot(info.array[i])]]

JsonTabData(td) == [tab \in DOMAIN td |-> JsonTabInfo(td[tab])]

\* What localStorage holds under STORAGE_KEY: nothing, a text that does not
\* parse, the text of a JSON value that is not an array, or the text of an
\* array (kept as the array it parses to).
NoItem == [kind |-> "missing"]
BrokenText == [kind |-> "garbage"]
ObjectText == [kind |-> "object"]
ArrayText(list) == [kind |-> "array", value |-> list]

\* Mutant of loadSnapshots: whatever parses is returned.
loadSnapshots_anyJson(item) ==
    IF item.kind = "missing" THEN <<>>
    ELSE IF item.kind = "garbage" THEN <<>>
    ELSE IF item.kind = "array" THEN item.value
    ELSE <<item>>

\* loadSnapshots: [] without an item, on a parse error, and for a value that
\* is not an array
loadSnapshots(item) ==
    IF item.kind = "missing" THEN <<>>
    ELSE IF item.kind = "garbage" THEN <<>>
    ELSE IF item.kind = "array" THEN item.value
    ELSE <<>>

\* the entry saveTabDataToStorage writes
TabSourcesEntry(td, at) == [id |-> ConfigId, savedAt |-> at, tabSources |-> JsonTabData(td)]

\* saveSnapshots([tabSourcesEntry])
SavedTabData(td, at) == ArrayText(<<TabSourcesEntry(td, at)>>)

\* defaultSaveLabel(): the minute of the clock reading (two readings a minute)
defaultSaveLabel(at) == at \div 2

\* `${Date.now()}`
IdOf(at) == ToString(at)

DefaultTabData == [tab \in tabs |-> [rows |-> DefaultRows, snapshots |-> <<>>]]

\* The settings a fresh component starts with.
FreshSettings ==
    [usePrior |-> FALSE, priorId |-> "", useBias |-> FALSE, biasWindow |-> 0,
     useAutoWeights |-> TRUE, autoWeightsOverride |-> Null]

\* What handleSaveSnapshot makes of a render at clock reading at.
Payload(a, at) ==
    LET info == a.tabData[a.activeTab]
    IN  [id |-> IdOf(at), savedAt |-> at, name |-> a.saveName, scheme |-> a.scheme,
         probs |-> blendedProbs(info.rows, info.snapshots, a),
         weightMode |-> IF a.useAutoWeights THEN "auto" ELSE "manual"]

\* A snapshot saved in an earlier session, at clock reading 0, from the
\* default rows and scheme.
EarlierSnapshot ==
    Payload([tabData |-> DefaultTabData, activeTab |-> "KAUS", saveName |-> defaultSaveLabel(0),
             scheme |-> DefaultScheme] @@ FreshSettings, 0)

\* A snapshot as an older version of the program stored it: in a bare array,
\* with the rows of its time embedded.
LegacySnapshot == (EarlierSnapshot @@ [rows |-> DefaultRows, actual |-> Num(96)])

\* What the store can hold when the program starts: nothing; damaged text; a
\* JSON value that is no array; what an older version left (a bare array of
\* snapshots, or tabs that are bare arrays); what this version left.
StartStores ==
    {NoItem, BrokenText, ObjectText,
     ArrayText(<<JsonSnapshot(LegacySnapshot)>>),
     ArrayText(<<[id |-> ConfigId, savedAt |-> 0,
                  tabSources |-> [tab \in tabs |-> [array |-> IF tab = "KAUS"
                                                                 THEN <<JsonSnapshot(LegacySnapshot)>>
                                                                 ELSE <<>>]]]>>),
     SavedTabData([DefaultTabData EXCEPT !["KAUS"].snapshots = <<EarlierSnapshot>>], 0)}

\* list.filter((s) => s.id !== id)
WithoutId(list, id) == SelectSeq(list, LAMBDA s : s.id # id)

\* The useState initializer of tabData.
InitialTabData(item) ==
    LET existing == loadSnapshots(item)
        at == FindById(existing, ConfigId, 1)
    IN  IF at # 0 /\ "tabSources" \in DOMAIN existing[at]
        THEN LET ts == existing[at].tabSources
             IN  IF \A tab \in tabs : IsTabObject(ts[tab]) THEN ts
                 ELSE [tab \in tabs |->
                          [rows |-> DefaultRows,
                           snapshots |-> IF IsTabObject(ts[tab]) THEN <<>> ELSE ts[tab].array]]
        ELSE DefaultTabData

\* The useEffect run after the first render: snapshots stored without a
\* 'tab_sources_config' entry are assigned to the KAUS tab.
MigratedOnLoad(td, item) ==
    LET loaded == loadSnapshots(item)
    IN  IF Len(loaded) = 0 THEN td
        ELSE IF FindById(loaded, ConfigId, 1) = 0
             THEN [td EXCEPT !["KAUS"] = [array |-> WithoutId(loaded, ConfigId)]]
             ELSE td

\* A render reads tabSnapshots[0] and rows.map(...) of the active tab: it
\* throws when the tab is not an object with these arrays.
RenderThrows(td, tab) == ~IsTabObject(td[tab])

InitApp ==
    /\ args = <<>>
    /\ ret = <<>>
    /\ pc = "app"
    /\ storage \in StartStores
    /\ download = NoItem
    /\ writable = TRUE
    /\ console = ""
    /\ now = 1
    /\ LET td == InitialTabData(storage)
           first == td["KAUS"].snapshots
       IN  /\ app = [tabData |-> MigratedOnLoad(td, storage),
                     activeTab |-> "KAUS",
                     scheme |-> IF Len(first) > 0 THEN first[1].scheme ELSE DefaultScheme,
                     currentSnapshotId |-> IF Len(first) > 0 THEN first[1].id ELSE "",
                     showEditor |-> FALSE,
                     lastSaved |-> Null,
                     saveName |-> defaultSaveLabel(1),
                     actualInput |-> "",
                     actualAttachIds |-> {}] @@ FreshSettings
           /\ crashed = RenderThrows(MigratedOnLoad(td, storage), "KAUS")

(***************************************************************************)
(* Handlers.  The user acts at a clock reading; the clock moves on between *)
(* two actions, except that a save can follow at the same reading.         *)
(***************************************************************************)
Acting == pc = "app" /\ ~crashed /\ now <= MaxClock

Elapse == now' = now + 1

tabSnapshots == app.tabData[app.activeTab].snapshots
tabRows == app.tabData[app.activeTab].rows

SnapshotIds == {tabSnapshots[i].id : i \in 1..Len(tabSnapshots)}

\* now.toLocaleTimeString()
LocaleTime(at) == [time |-> at]

\* saveSnapshots(list) under saveTabDataToStorage: a failing write is
\* swallowed and the item stays as it was
StoredTabData(td) == IF writable THEN SavedTabData(td, now) ELSE storage

\* updateTabSnapshots(newSnapshots): the new tab data and the Last-Saved notice
WithTabSnapshots(newSnapshots) ==
    [app EXCEPT !.tabData = [@ EXCEPT ![app.activeTab] = [@ EXCEPT !.snapshots = newSnapshots]],
                !.lastSaved = LocaleTime(now)]

\* updateCurrentTabData(updatedRows)
WithTabRows(updatedRows) ==
    [app EXCEPT !.tabData = [@ EXCEPT ![app.activeTab] = [@ EXCEPT !.rows = updatedRows]],
                !.lastSaved = LocaleTime(now)]

handleSaveSnapshot ==
    /\ Acting
    /\ Len(tabSnapshots) < MaxSnapshots
    /\ LET next == WithTabSnapshots(<<Payload(app, now)>> \o tabSnapshots)
       IN  /\ app' = [next EXCEPT !.saveName = defaultSaveLabel(now)]
           /\ storage' = StoredTabData(next.tabData)
    /\ now' \in {now, now + 1}
    /\ UNCHANGED <<callVars, download, writable, crashed, console>>

\* What the Actual field can hold (an input of type number): nothing, a
\* temperature, a numeral beyond the range of a double.
ActualInputs == {"", "93", "1e999"}

\* Number(actualInput)
NumberOfText(text) ==
    IF text = "" THEN Zero ELSE IF text = "93" THEN Num(93) ELSE Infinity

setActualInput ==
    /\ Acting
    /\ \E text \in ActualInputs \ {app.actualInput} : app' = [app EXCEPT !.actualInput = text]
    /\ Elapse
    /\ UNCHANGED <<callVars, storage, download, writable, crashed, console>>

\* the checkbox of a saved forecast
toggleActualAttachId ==
    /\ Acting
    /\ \E id \in SnapshotIds :
          app' = [app EXCEPT !.actualAttachIds = IF id \in @ THEN @ \ {id} ELSE @ \cup {id}]
    /\ Elapse
    /\ UNCHANGED <<callVars, storage, download, writable, crashed, console>>

\* Mutant of SetActual: the snapshot is also marked as one of manual weights.
SetActual_markedManual(s, val) ==
    [f \in DOMAIN s \cup {"actual"} |->
        IF f = "actual" THEN val ELSE IF f = "weightMode" THEN "manual" ELSE s[f]]

\* { ...s, actual: val }
SetActual(s, val) == [f \in DOMAIN s \cup {"actual"} |-> IF f = "actual" THEN val ELSE s[f]]

\* { ...s, actual: undefined }: the snapshot has no numeric actual any more
ClearActual(s) == [f \in DOMAIN s \ {"actual"} |-> s[f]]

\* Mutant of AttachDisabled: the button is disabled without a selection only.
AttachDisabled_selectionOnly == app.actualAttachIds = {}

\* disabled={!actualAttachIds.length || actualInput === ""}
AttachDisabled == app.actualAttachIds = {} \/ app.actualInput = ""

\* A click on Attach does nothing: the button is disabled, or the handler
\* returns at its first line.
AttachIgnored ==
    \/ AttachDisabled
    \/ ~IsFinite(NumberOfText(app.actualInput))
    \/ app.actualAttachIds = {}

\* A click on Attach; ret tells what became of the last one.
handleAttachActualToSnapshots ==
    /\ Acting
    /\ LET val == NumberOfText(app.actualInput)
           updated == [i \in 1..Len(tabSnapshots) |->
                          IF tabSnapshots[i].id \in app.actualAttachIds
                          THEN SetActual(tabSnapshots[i], val) ELSE tabSnapshots[i]]
       IN  IF AttachIgnored
           THEN /\ ret' = [attach |-> "ignored"]
                /\ UNCHANGED <<app, storage>>
           ELSE /\ ret' = [attach |-> "attached"]
                /\ app' = [WithTabSnapshots(updated) EXCEPT !.actualAttachIds = {}, !.actualInput = ""]
                /\ storage' = StoredTabData(WithTabSnapshots(updated).tabData)
    /\ Elapse
    /\ UNCHANGED <<args, pc, download, writable, crashed, console>>

\* The Clear button is disabled without a selection.
handleClearActualOnSnapshots ==
    /\ Acting
    /\ app.actualAttachIds # {}
    /\ LET updated == [i \in 1..Len(tabSnapshots) |->
                          IF tabSnapshots[i].id \in app.actualAttachIds
                          THEN ClearActual(tabSnapshots[i]) ELSE tabSnapshots[i]]
       IN  /\ app' = [WithTabSnapshots(updated) EXCEPT !.actualAttachIds = {}]
           /\ storage' = StoredTabData(WithTabSnapshots(updated).tabData)
    /\ Elapse
    /\ UNCHANGED <<callVars, download, writable, crashed, console>>

handleDeleteSnapshot ==
    /\ Acting
    /\ \E id \in SnapshotIds :
          LET next == WithTabSnapshots(WithoutId(tabSnapshots, id))
          IN  /\ app' = [next EXCEPT !.priorId = IF @ = id THEN "" ELSE @]
              /\ storage' = StoredTabData(next.tabData)
    /\ Elapse
    /\ UNCHANGED <<callVars, download, writable, crashed, console>>

(***************************************************************************)
(* SpecSnapshots: the snapshot collection of a tab under save, attach,     *)
(* clear and delete.                                                       *)
(***************************************************************************)
NextSnapshots ==
    \/ handleSaveSnapshot
    \/ setActualInput
    \/ toggleActualAttachId
    \/ handleAttachActualToSnapshots
    \/ handleClearActualOnSnapshots
    \/ handleDeleteSnapshot

SpecSnapshots == InitApp /\ [][NextSnapshots]_vars

\* No two snapshots of the list share an id.
DistinctIds(list) == \A i, j \in 1..Len(list) : list[i].id = list[j].id => i = j

\* C13: after any sequence of save, attach-actual, clear-actual and delete
\* operations on a tab, several saves at the same clock reading included, no
\* two snapshots of that tab's collection share an id.
C13_SnapshotIdsDistinct ==
    (pc = "app" /\ ~crashed) =>
        \A tab \in tabs : DistinctIds(app.tabData[tab].snapshots)

(***************************************************************************)
(* The scheme editor, 'Load inputs', row edits and tab switches.           *)
(***************************************************************************)
\* the Edit button
openEditor ==
    /\ Acting
    /\ ~app.showEditor
    /\ app' = [app EXCEPT !.showEditor = TRUE]
    /\ Elapse
    /\ UNCHANGED <<callVars, storage, download, writable, crashed, console>>

\* The snapshots updateCurrentTabDataScheme writes back: the one(s) with the
\* current snapshot id get the scheme of the session.
WithCurrentScheme(list, id, sch) ==
    [i \in 1..Len(list) |->
        IF list[i].id # id THEN list[i]
        ELSE [f \in DOMAIN list[i] \cup {"scheme"} |-> IF f = "scheme" THEN sch ELSE list[i][f]]]

\* the Done button: setShowEditor((v) => !v); updateCurrentTabDataScheme()
updateCurrentTabDataScheme ==
    /\ Acting
    /\ app.showEditor
    /\ LET next == WithTabSnapshots(WithCurrentScheme(tabSnapshots, app.currentSnapshotId, app.scheme))
       IN  /\ app' = [next EXCEPT !.showEditor = FALSE]
           /\ storage' = StoredTabData(next.tabData)
    /\ Elapse
    /\ UNCHANGED <<callVars, download, writable, crashed, console>>

\* What the user types into a label and into a max of the editor ("" in a max
\* stands for no upper limit).
EditorLabels == {"hot"}
EditorMaxes == {Num(95), Infinity}

\* The editor's rows: setScheme with a new label, a new max, a bracket less
\* (not the last one) or a bracket more.
setScheme ==
    /\ Acting
    /\ app.showEditor
    /\ \/ \E idx \in 1..Len(app.scheme), label \in EditorLabels :
             /\ app.scheme[idx].label # label
             /\ app' = [app EXCEPT !.scheme[idx].label = label]
       \/ \E idx \in 1..Len(app.scheme), max \in EditorMaxes :
             /\ app.scheme[idx].max # max
             /\ app' = [app EXCEPT !.scheme[idx].max = max]
       \/ \E idx \in 1..Len(app.scheme) :
             /\ Len(app.scheme) > 1
             /\ app' = [app EXCEPT !.scheme = SubSeq(@, 1, idx - 1) \o SubSeq(@, idx + 1, Len(@))]
       \/ /\ Len(app.scheme) < MaxBrackets
          /\ app' = [app EXCEPT !.scheme = Append(@, [label |-> "New", max |-> Infinity])]
    /\ Elapse
    /\ UNCHANGED <<callVars, storage, download, writable, crashed, console>>

RECURSIVE OverrideOf(_, _, _)
\* (snap.rows || []).forEach((r) => { if (r?.source) o[r.source] = Number(r.weight) || 0 })
OverrideOf(o, rows, i) ==
    IF i > Len(rows) THEN o
    ELSE IF rows[i].source = <<>> THEN OverrideOf(o, rows, i + 1)
    ELSE OverrideOf(MapSet(o, rows[i].source, NumberOr0(ToNumber(rows[i].weight))), rows, i + 1)

\* the Load inputs button of a saved forecast
applySnapshotInputs ==
    /\ Acting
    /\ \E id \in SnapshotIds :
          LET snap == tabSnapshots[FindById(tabSnapshots, id, 1)]
              wasAuto == snap.weightMode = "auto"
          IN  app' = [app EXCEPT
                        !.currentSnapshotId = id,
                        !.scheme = IF "scheme" \in DOMAIN snap THEN snap.scheme ELSE @,
                        !.useAutoWeights = wasAuto,
                        !.autoWeightsOverride =
                            IF wasAuto
                            THEN Obj(OverrideOf(<<>>, IF "rows" \in DOMAIN snap THEN snap.rows ELSE <<>>, 1))
                            ELSE Null]
    /\ Elapse
    /\ UNCHANGED <<callVars, storage, download, writable, crashed, console>>

\* What updateSource(id, field, value) makes of a row when the user types a
\* name with a blank before it, another forecast, or no weight.
EditedRows(r) ==
    {[r EXCEPT !.source = <<" ", "A">>],
     [r EXCEPT !.forecast = Num(92)],
     [r EXCEPT !.weight = Zero]} \ {r}

updateSource ==
    /\ Acting
    /\ \E i \in 1..Len(tabRows) :
          \E edited \in EditedRows(tabRows[i]) :
              LET next == WithTabRows([tabRows EXCEPT ![i] = edited])
              IN  /\ app' = next
                  /\ storage' = StoredTabData(next.tabData)
    /\ Elapse
    /\ UNCHANGED <<callVars, download, writable, crashed, console>>

\* a click on another tab
setActiveTab ==
    /\ Acting
    /\ \E tab \in tabs \ {app.activeTab} :
          /\ app' = [app EXCEPT !.activeTab = tab]
          /\ crashed' = RenderThrows(app.tabData, tab)
    /\ Elapse
    /\ UNCHANGED <<callVars, storage, download, writable, console>>

(***************************************************************************)
(* SpecSchemeEditor: snapshots under saves, 'Load inputs', the scheme      *)
(* editor, row edits and tab switches.                                     *)
(***************************************************************************)
NextSchemeEditor ==
    \/ handleSaveSnapshot
    \/ applySnapshotInputs
    \/ openEditor
    \/ setScheme
    \/ updateCurrentTabDataScheme
    \/ updateSource
    \/ setActiveTab

SpecSchemeEditor == InitApp /\ [][NextSchemeEditor]_vars

\* The fields of a snapshot that are fixed when it is saved.
Frozen(s) ==
    [id |-> s.id, name |-> s.name, scheme |-> s.scheme, probs |-> s.probs,
     weightMode |-> s.weightMode]

FrozenOf(list) == {Frozen(list[i]) : i \in 1..Len(list)}

\* C14: once a snapshot is created, its id, name, scheme, probs and
\* weightMode never change under any later user operation; a step either
\* keeps every snapshot of a tab with these fields as they were, or deletes
\* one.
C14_SnapshotsImmutable ==
    [][(pc = "app" /\ ~crashed) =>
          \A tab \in tabs :
              \/ FrozenOf(app.tabData[tab].snapshots) \subseteq FrozenOf(app'.tabData[tab].snapshots)
              \/ Len(app'.tabData[tab].snapshots) < Len(app.tabData[tab].snapshots)]_vars

\* C15: in every reachable state, every snapshot of every tab has a probs
\* sequence as long as its own scheme, with entries that sum to 1.
C15_ProbsMatchSchemeAndSumToOne ==
    (pc = "app" /\ ~crashed) =>
        \A tab \in tabs :
            \A i \in 1..Len(app.tabData[tab].snapshots) :
                LET snap == app.tabData[tab].snapshots[i]
                IN  /\ Len(snap.probs) = Len(snap.scheme)
                    /\ SumSeq(snap.probs) = One

\* The part of C15 about lengths alone.
ProbsAsLongAsScheme ==
    (pc = "app" /\ ~crashed) =>
        \A tab \in tabs :
            \A i \in 1..Len(app.tabData[tab].snapshots) :
                Len(app.tabData[tab].snapshots[i].probs) = Len(app.tabData[tab].snapshots[i].scheme)

(***************************************************************************)
(* Backup and restore.                                                     *)
(***************************************************************************)
\* snapshots.map((snapshot) => ({ ...snapshot, savedAt: localISOTime }))
Restamped(list, at) ==
    [i \in 1..Len(list) |->
        [f \in DOMAIN list[i] \cup {"savedAt"} |-> IF f = "savedAt" THEN at ELSE list[i][f]]]

\* downloadData: the entries of the store, restamped, go into a file; a store
\* that does not parse, or holds no array, ends in the alert.
downloadData ==
    /\ Acting
    /\ IF storage.kind = "missing"
       THEN download' = ArrayText(<<>>) /\ UNCHANGED console
       ELSE IF storage.kind = "array"
       THEN download' = ArrayText(Restamped(storage.value, now)) /\ UNCHANGED console
       ELSE console' = "Download failed." /\ UNCHANGED download
    /\ Elapse
    /\ UNCHANGED <<callVars, app, storage, writable, crashed>>

\* const { rows, ...snapshotWithoutRows } = snapshot
WithoutRows(snapshot) == [f \in DOMAIN snapshot \ {"rows"} |-> snapshot[f]]

\* newTabData of the legacy branch
LegacyTabData(uploadedData) ==
    LET legacySnapshots == WithoutId(uploadedData, ConfigId)
        cleanedSnapshots == [i \in 1..Len(legacySnapshots) |-> WithoutRows(legacySnapshots[i])]
    IN  [tab \in tabs |->
            [rows |-> DefaultRows,
             snapshots |-> IF tab = "KAUS" THEN cleanedSnapshots ELSE <<>>]]

\* saveSnapshots(list): a failing write is swallowed
Written(list) == IF writable THEN ArrayText(list) ELSE storage

\* Mutant of UploadOf: a file that is no JSON array is taken for an empty
\* legacy collection.
UploadOf_resetOnInvalid(file) ==
    /\ Acting
    /\ IF file.kind = "garbage"
       THEN /\ console' = "Upload error:"
            /\ UNCHANGED <<app, storage, crashed>>
       ELSE LET uploadedData == IF file.kind = "array" THEN file.value ELSE <<>>
                at == FindById(uploadedData, ConfigId, 1)
            IN  IF at # 0 /\ "tabSources" \in DOMAIN uploadedData[at]
                THEN /\ app' = [app EXCEPT !.tabData = uploadedData[at].tabSources]
                     /\ storage' = Written(<<JsonSnapshot(uploadedData[at])>>)
                     /\ crashed' = RenderThrows(uploadedData[at].tabSources, app.activeTab)
                     /\ UNCHANGED console
                ELSE /\ app' = [app EXCEPT !.tabData = LegacyTabData(uploadedData),
                                           !.activeTab = "KAUS"]
                     /\ storage' = Written(<<TabSourcesEntry(LegacyTabData(uploadedData), now)>>)
                     /\ crashed' = FALSE
                     /\ UNCHANGED console
    /\ Elapse
    /\ UNCHANGED <<callVars, download, writable>>

\* reader.onload of handleUploadDataWrapper for a file with the given text
UploadOf(file) ==
    /\ Acting
    /\ IF file.kind = "garbage"
       THEN /\ console' = "Upload error:"
            /\ UNCHANGED <<app, storage, crashed>>
       ELSE IF file.kind # "array"
       THEN /\ console' = "Invalid file format. Expected JSON array."
            /\ UNCHANGED <<app, storage, crashed>>
       ELSE LET uploadedData == file.value
                at == FindById(uploadedData, ConfigId, 1)
            IN  IF at # 0 /\ "tabSources" \in DOMAIN uploadedData[at]
                THEN /\ app' = [app EXCEPT !.tabData = uploadedData[at].tabSources]
                     /\ storage' = Written(<<JsonSnapshot(uploadedData[at])>>)
                     /\ crashed' = RenderThrows(uploadedData[at].tabSources, app.activeTab)
                     /\ UNCHANGED console
                ELSE /\ app' = [app EXCEPT !.tabData = LegacyTabData(uploadedData),
                                           !.activeTab = "KAUS"]
                     /\ storage' = Written(<<TabSourcesEntry(LegacyTabData(uploadedData), now)>>)
                     /\ crashed' = FALSE
                     /\ UNCHANGED console
    /\ Elapse
    /\ UNCHANGED <<callVars, download, writable>>

\* The files the user picks: damaged text, a JSON value that is no array, a
\* bare array of snapshots of an older version, and the last download.
UploadFiles ==
    {BrokenText, ObjectText, ArrayText(<<JsonSnapshot(LegacySnapshot)>>)}
    \cup (IF download.kind = "array" THEN {download} ELSE {})

handleUploadDataWrapper == \E file \in UploadFiles : UploadOf(file)

(***************************************************************************)
(* SpecBackup: snapshots saved and rows edited, the store exported and     *)
(* files imported.                                                         *)
(***************************************************************************)
NextBackup ==
    \/ handleSaveSnapshot
    \/ updateSource
    \/ setActiveTab
    \/ downloadData
    \/ handleUploadDataWrapper

SpecBackup == InitApp /\ [][NextBackup]_vars

\* A snapshot, and the tab data, without the savedAt stamps.
Unstamped(s) == [f \in DOMAIN s \ {"savedAt"} |-> s[f]]

Content(td) ==
    [tab \in tabs |->
        [rows |-> td[tab].rows,
         snapshots |-> [i \in 1..Len(td[tab].snapshots) |-> Unstamped(td[tab].snapshots[i])]]]

\* The store holds the tab data in memory, and the last download is the
\* export of that store.
PersistedAndExported ==
    /\ storage.kind = "array"
    /\ Len(storage.value) = 1
    /\ storage.value[1].id = ConfigId
    /\ storage.value[1].tabSources = JsonTabData(app.tabData)
    /\ download.kind = "array"
    /\ Len(download.value) = 1
    /\ Unstamped(download.value[1]) = Unstamped(storage.value[1])

\* C16: for every reachable state, persisting it, exporting the persisted
\* data and importing the exported file yields tab rows and snapshot
\* collections equal in content to the original (savedAt apart), each
\* snapshot's scheme thresholds (an unbounded last max included) and actual
\* included.
C16_ExportImportRoundTrip ==
    [][(PersistedAndExported /\ UploadOf(download)) =>
          Content(app'.tabData) = Content(app.tabData)]_vars

\* The same for states whose numbers are all finite: there the round trip is
\* exact.
RoundTripOfFiniteData ==
    [][(PersistedAndExported /\ UploadOf(download) /\ JsonTabData(app.tabData) = app.tabData) =>
          Content(app'.tabData) = Content(app.tabData)]_vars

\* C18: importing a file whose content fails to parse, or whose top-level
\* JSON value is not an array, leaves the tab data in memory, the active tab
\* and the store unchanged and raises no exception.
C18_InvalidImportIsIgnored ==
    [][(UploadOf(BrokenText) \/ UploadOf(ObjectText)) =>
          /\ app'.tabData = app.tabData
          /\ app'.activeTab = app.activeTab
          /\ storage' = storage
          /\ ~crashed']_vars

\* Witness of C18: a file that is no JSON array has been refused while the
\* KMIA tab was active and the store held the saved tab data.
C18_Witness ==
    /\ pc = "app"
    /\ ~crashed
    /\ console = "Invalid file format. Expected JSON array."
    /\ app.activeTab = "KMIA"
    /\ storage.kind = "array"

\* Legacy data: an array of snapshots without a 'tab_sources_config' entry.
IsLegacy(item) ==
    /\ item.kind = "array"
    /\ Len(item.value) > 0
    /\ FindById(item.value, ConfigId, 1) = 0

\* Every tab is an object {rows, snapshots}, KAUS holds the legacy snapshots
\* without their rows, every other tab holds no snapshot.
LegacyOutcome(td, legacy) ==
    /\ \A tab \in tabs : IsTabObject(td[tab])
    /\ Len(td["KAUS"].snapshots) = Len(legacy)
    /\ \A i \in 1..Len(legacy) :
          /\ "rows" \notin DOMAIN td["KAUS"].snapshots[i]
          /\ \A f \in DOMAIN legacy[i] \ {"rows"} :
                /\ f \in DOMAIN td["KAUS"].snapshots[i]
                /\ td["KAUS"].snapshots[i][f] = legacy[i][f]
    /\ \A tab \in tabs \ {"KAUS"} : td[tab].snapshots = <<>>

\* C19: whenever legacy data is taken in, by reading the persisted store at
\* start-up or by file import, the resulting tab data maps every tab to an
\* object {rows, snapshots}, KAUS holds exactly the legacy snapshots with
\* their rows stripped, and every other tab holds an empty snapshot list.
C19_LegacyDataBecomesTabObjects ==
    /\ IsLegacy(storage) => LegacyOutcome(app.tabData, storage.value)
    /\ [][\A file \in UploadFiles :
             (IsLegacy(file) /\ UploadOf(file)) => LegacyOutcome(app'.tabData, file.value)]_vars

\* The import half of C19 alone.
LegacyImportBecomesTabObjects ==
    [][\A file \in UploadFiles :
          (IsLegacy(file) /\ UploadOf(file)) => LegacyOutcome(app'.tabData, file.value)]_vars

(***************************************************************************)
(* SpecLoadSnapshots: loadSnapshots on whatever the store can hold.        *)
(***************************************************************************)
MaxStored == 2

\* JSON values that are no array: an object, a number, a string, true, null
\* (the last parses, and Array.isArray refuses it like the others).
NonArrayTexts == {[kind |-> k] : k \in {"object", "number", "string", "true", "null"}}

\* Entries an array in the store can hold.
StoredEntries ==
    {JsonSnapshot(EarlierSnapshot), JsonSnapshot(LegacySnapshot),
     JsonSnapshot(SetActual(EarlierSnapshot, Num(93))),
     TabSourcesEntry(DefaultTabData, 0), TabSourcesEntry(DefaultTabData, 1),
     TabSourcesEntry([DefaultTabData EXCEPT !["KAUS"].snapshots = <<EarlierSnapshot>>], 1),
     [id |-> ConfigId, savedAt |-> 0]}

StoredItems ==
    {NoItem, BrokenText} \cup NonArrayTexts
    \cup {ArrayText(list) : list \in SeqsUpTo(StoredEntries, MaxStored)}

InitLoadSnapshots ==
    /\ args \in [item : StoredItems]
    /\ ret = <<>>
    /\ pc = "call"
    /\ AppNotStarted

CallLoadSnapshots ==
    /\ pc = "call"
    /\ ret' = [snapshots |-> loadSnapshots(args.item)]
    /\ pc' = "done"
    /\ UNCHANGED <<args, appVars>>

SpecLoadSnapshots == InitLoadSnapshots /\ [][CallLoadSnapshots]_vars

\* C17: loadSnapshots returns an empty collection whenever the storage key is
\* missing, holds text that does not parse as JSON, or holds a JSON value
\* that is not an array; otherwise it returns the stored array.
C17_LoadSnapshotsDegradesToEmpty ==
    pc = "done" =>
        /\ (args.item = NoItem \/ args.item = BrokenText \/ args.item \in NonArrayTexts)
              => ret.snapshots = <<>>
        /\ (args.item \notin {NoItem, BrokenText} \cup NonArrayTexts)
              => ret.snapshots = args.item.value

\* Witness of C17: the store held a JSON object, and the empty collection came
\* back.
C17_Witness ==
    /\ pc = "done"
    /\ args.item = ObjectText
    /\ ret.snapshots = <<>>

(***************************************************************************)
(* SpecMissingInput: the core functions called with arguments that are     *)
(* missing or of the wrong shape.  An argument is undefined, an object     *)
(* that is no array, or an array; a call returns a value or throws.        *)
(***************************************************************************)
Missing == [kind |-> "undefined"]
NotAnArray == [kind |-> "object"]
Arr(list) == [kind |-> "array", value |-> list]

\* Array.isArray(x)
IsArray(x) == x.kind = "array"

Returned(v) == [threw |-> FALSE, value |-> v]
Thrown == [threw |-> TRUE]

\* computeBiases: both arguments are tested with Array.isArray first
TryComputeBiases(snapshots, currentRows) ==
    IF ~IsArray(snapshots) \/ ~IsArray(currentRows) THEN Returned(<<>>)
    ELSE Returned(computeBiases(snapshots.value, currentRows.value, 0))

\* (snapshots || []).filter(...): undefined becomes [], an object that is no
\* array has no filter method
FilterThrows(snapshots) == snapshots.kind = "object"

OrEmpty(snapshots) == IF IsArray(snapshots) THEN snapshots.value ELSE <<>>

TryCalculatePerSourceStats(snapshots, currentRows) ==
    IF FilterThrows(snapshots) THEN Thrown
    ELSE IF ~IsArray(currentRows) THEN Returned(<<>>)
    ELSE Returned(calculatePerSourceStats(OrEmpty(snapshots), currentRows.value))

TryCalculateAccuracy(snapshots) ==
    IF FilterThrows(snapshots) THEN Thrown
    ELSE Returned(calculateAccuracy(OrEmpty(snapshots)))

TryCalculateAccuracyTrendData(snapshots) ==
    IF FilterThrows(snapshots) THEN Thrown
    ELSE Returned(calculateAccuracyTrendData(OrEmpty(snapshots)))

\* calculateAutoWeights: !perSourceStats || perSourceStats.length === 0
TryCalculateAutoWeights(perSourceStats) ==
    IF ~IsArray(perSourceStats) THEN Returned(Null)
    ELSE Returned(calculateAutoWeights(perSourceStats.value, TRUE))

\* calculateBaseProbs: [] without a scheme, zeros without rows
TryCalculateBaseProbs(rows, scheme) ==
    IF ~IsArray(scheme) THEN Returned(<<>>)
    ELSE IF Len(scheme.value) = 0 THEN Returned(<<>>)
    ELSE IF ~IsArray(rows) THEN Returned([i \in 1..Len(scheme.value) |-> Zero])
    ELSE Returned(calculateBaseProbs(adjustedRows(normalizedRows(rows.value), FALSE, <<>>),
                                     scheme.value))

\* calculateBlendedProbs with usePrior on and a priorId: snapshots.find,
\* scheme.length and prior[i] are read without a test
TryCalculateBlendedProbs(priorId, baseProbs, snapshots, scheme) ==
    IF ~IsArray(snapshots) THEN Thrown
    ELSE LET at == FindById(snapshots.value, priorId, 1)
         IN  IF at = 0 THEN Returned(baseProbs)
             ELSE IF ~IsArray(scheme) THEN Thrown
             ELSE IF "scheme" \notin DOMAIN snapshots.value[at] THEN Returned(baseProbs)
             ELSE IF ~SameLabels(snapshots.value[at].scheme, scheme.value) THEN Returned(baseProbs)
             ELSE IF "probs" \notin DOMAIN snapshots.value[at]
                  THEN IF Len(baseProbs) > 0 THEN Thrown ELSE Returned(<<>>)
             ELSE Returned(Blend(baseProbs, snapshots.value[at].probs))

CoreFunctions ==
    {"computeBiases", "calculatePerSourceStats", "calculateAccuracy",
     "calculateAccuracyTrendData", "calculateAutoWeights", "calculateBaseProbs",
     "calculateBlendedProbs"}

\* a snapshot without one of its fields
Lacking(s, field) == [f \in DOMAIN s \ {field} |-> s[f]]

ScoredSnapshot == SetActual(EarlierSnapshot, Num(93))

SnapshotInputs ==
    {Missing, NotAnArray, Arr(<<>>), Arr(<<ScoredSnapshot>>),
     Arr(<<Lacking(ScoredSnapshot, "probs")>>), Arr(<<Lacking(ScoredSnapshot, "scheme")>>)}

RowInputs == {Missing, Arr(DefaultRows)}

SchemeInputs == {Missing, Arr(<<>>), Arr(DefaultScheme)}

StatsInputs == {Missing, Arr(<<>>), Arr(<<[source |-> <<"A">>, mae |-> One]>>)}

InitMissingInput ==
    /\ args \in [fn : CoreFunctions, snapshots : SnapshotInputs, rows : RowInputs,
                 scheme : SchemeInputs, perSourceStats : StatsInputs]
    /\ ret = <<>>
    /\ pc = "call"
    /\ AppNotStarted

Outcome(a) ==
    CASE a.fn = "computeBiases" -> TryComputeBiases(a.snapshots, a.rows)
      [] a.fn = "calculatePerSourceStats" -> TryCalculatePerSourceStats(a.snapshots, a.rows)
      [] a.fn = "calculateAccuracy" -> TryCalculateAccuracy(a.snapshots)
      [] a.fn = "calculateAccuracyTrendData" -> TryCalculateAccuracyTrendData(a.snapshots)
      [] a.fn = "calculateAutoWeights" -> TryCalculateAutoWeights(a.perSourceStats)
      [] a.fn = "calculateBaseProbs" -> TryCalculateBaseProbs(a.rows, a.scheme)
      [] a.fn = "calculateBlendedProbs" ->
            TryCalculateBlendedProbs(ScoredSnapshot.id,
                                     TryCalculateBaseProbs(a.rows, a.scheme).value,
                                     a.snapshots, a.scheme)

CallCoreFunction ==
    /\ pc = "call"
    /\ ret' = Outcome(args)
    /\ pc' = "done"
    /\ UNCHANGED <<args, appVars>>

SpecMissingInput == InitMissingInput /\ [][CallCoreFunction]_vars

\* C20: none of computeBiases, calculatePerSourceStats, calculateAccuracy,
\* calculateAccuracyTrendData, calculateAutoWeights, calculateBaseProbs and
\* calculateBlendedProbs ever throws: for missing or invalid input (snapshot
\* collection absent or not an array, a snapshot lacking probs or scheme,
\* rows absent, scheme absent or empty) each returns a best-effort value.
C20_CoreFunctionsNeverThrow == pc = "done" => ~ret.threw

\* The functions that test their arguments do return for every such input.
TestedArgumentsNeverThrow ==
    (pc = "done" /\ args.fn \in {"computeBiases", "calculateAutoWeights", "calculateBaseProbs"})
        => ~ret.threw

\* The others return as long as the snapshot collection is an array or
\* absent and, for the blend, given and made of whole snapshots.
ThrowsOnlyOnUntestedArguments ==
    (pc = "done" /\ ret.threw) =>
        \/ /\ args.fn \in {"calculatePerSourceStats", "calculateAccuracy",
                           "calculateAccuracyTrendData"}
           /\ args.snapshots = NotAnArray
        \/ /\ args.fn = "calculateBlendedProbs"
           /\ \/ ~IsArray(args.snapshots)
              \/ ~IsArray(args.scheme)
              \/ args.snapshots = Arr(<<Lacking(ScoredSnapshot, "probs")>>)

(***************************************************************************)
(* SpecWriteFailure: the mutations of a tab while the store may stop       *)
(* taking writes (quota reached: localStorage.setItem throws from then on).*)
(***************************************************************************)
\* the environment: from now on setItem throws
storageFails ==
    /\ Acting
    /\ writable
    /\ writable' = FALSE
    /\ UNCHANGED <<callVars, app, storage, download, crashed, console, now>>

\* save, attach, clear, delete, row edit
Mutation ==
    \/ handleSaveSnapshot
    \/ handleAttachActualToSnapshots /\ ~AttachIgnored
    \/ handleClearActualOnSnapshots
    \/ handleDeleteSnapshot
    \/ updateSource

NextWriteFailure ==
    \/ storageFails
    \/ setActualInput
    \/ toggleActualAttachId
    \/ handleSaveSnapshot
    \/ handleAttachActualToSnapshots
    \/ handleClearActualOnSnapshots
    \/ handleDeleteSnapshot
    \/ updateSource

SpecWriteFailure == InitApp /\ [][NextWriteFailure]_vars

\* C21: if the storage write fails during a mutation (save, attach, clear,
\* delete, row edit), no exception reaches the caller, the tab data in memory
\* reflects the mutation, and the failure is reported as a notice instead of
\* the write being shown as saved.
C21_WriteFailureIsReported ==
    [][(~writable /\ Mutation) =>
          /\ ~crashed'
          /\ storage' = storage
          /\ console' # console
          /\ app'.lastSaved = app.lastSaved]_vars

\* What the code does on a failed write: nothing is thrown, the store keeps
\* its old content, no notice is given and 'Last saved' takes the time of
\* the failed write.
WriteFailureIsSilent ==
    [][(~writable /\ Mutation) =>
          /\ ~crashed'
          /\ storage' = storage
          /\ console' = console
          /\ app'.lastSaved = LocaleTime(now)]_vars

(***************************************************************************)
(* SpecAdjustedRows: the adjustedRows memo applied to normalized rows and  *)
(* to what the bias estimator can return.                                  *)
(***************************************************************************)
\* rows named A, A after a blank, and B
BiasedRowsOf ==
    [source : {<<"A">>, <<" ", "A">>, <<"B">>}, forecast : {Num(90), Num(96)}, nWeight : {One}]

\* estimator outputs for source A: none, within the clamp, on its ends,
\* beyond them, and not a number
BiasMaps ==
    {<<>>} \cup {<<[k |-> <<"A">>, v |-> b]>> : b \in {Num(-7), Num(-5), Rat(3, 2), Num(5), Num(6), NaN}}

InitAdjustedRows ==
    /\ args \in [rows : SeqsUpTo(BiasedRowsOf, MaxRows), useBias : BOOLEAN, biases : BiasMaps]
    /\ ret = <<>>
    /\ pc = "call"
    /\ AppNotStarted

CallAdjustedRows ==
    /\ pc = "call"
    /\ ret' = [rows |-> adjustedRows(args.rows, args.useBias, args.biases)]
    /\ pc' = "done"
    /\ UNCHANGED <<args, appVars>>

SpecAdjustedRows == InitAdjustedRows /\ [][CallAdjustedRows]_vars

\* The entry of the bias map under the name of the row as typed, 0 without a
\* finite entry, brought into [-5, +5].
ExpectedShift(biases, source) ==
    LET at == CHOOSE i \in 0..Len(biases) : (i = 0 /\ \A j \in 1..Len(biases) : biases[j].k # source)
                                            \/ (i > 0 /\ biases[i].k = source)
        e == IF at = 0 THEN Zero ELSE IF IsFinite(biases[at].v) THEN biases[at].v ELSE Zero
    IN  IF Leq(e, Num(-5)) THEN Num(-5) ELSE IF Leq(Num(5), e) THEN Num(5) ELSE e

\* C22: with bias learning on, every row's adjusted forecast differs from its
\* forecast by exactly the bias estimated for the row's source clamped to
\* [-5, +5] (0 without a bias entry), so the difference is at most 5 in
\* absolute value; with bias learning off the adjusted forecast is the
\* forecast.
C22_BiasClampedToFive ==
    pc = "done" =>
        /\ Len(ret.rows) = Len(args.rows)
        /\ \A i \in 1..Len(args.rows) :
              IF args.useBias
              THEN /\ Sub(ret.rows[i].adjForecast, args.rows[i].forecast)
                         = ExpectedShift(args.biases, args.rows[i].source)
                   /\ Leq(AbsNum(Sub(ret.rows[i].adjForecast, args.rows[i].forecast)), Num(5))
              ELSE ret.rows[i].adjForecast = args.rows[i].forecast

\* Witness of C22: an estimated bias of 6 for A has moved the forecast of A
\* by 5.
C22_Witness ==
    /\ pc = "done"
    /\ args.useBias
    /\ args.biases = <<[k |-> <<"A">>, v |-> Num(6)]>>
    /\ Len(args.rows) = 1
    /\ args.rows[1].source = <<"A">>
    /\ args.rows[1].forecast = Num(96)
    /\ ret.rows[1].adjForecast = Num(101)

(***************************************************************************)
(* SpecWeightMode: the weights fed to the probability engine under saves,  *)
(* 'Load inputs', the auto-weights checkbox and row edits.                 *)
(***************************************************************************)
\* the auto-weights checkbox
handleSetUseAutoWeights ==
    /\ Acting
    /\ app' = [app EXCEPT !.useAutoWeights = ~@,
                          !.autoWeightsOverride = IF app.useAutoWeights THEN Null ELSE @]
    /\ Elapse
    /\ UNCHANGED <<callVars, storage, download, writable, crashed, console>>

NextWeightMode ==
    \/ handleSetUseAutoWeights
    \/ handleSaveSnapshot
    \/ applySnapshotInputs
    \/ updateSource

SpecWeightMode == InitApp /\ [][NextWeightMode]_vars

\* the perSourceStats, autoWeightsMap and effectiveRows memos of the render
RenderedStats == calculatePerSourceStats(tabSnapshots, tabRows)

RenderedAutoWeights == calculateAutoWeights(RenderedStats, app.useAutoWeights)

RenderedEffectiveRows ==
    effectiveRows(tabRows, app.useAutoWeights, app.autoWeightsOverride, RenderedAutoWeights)

\* C23: in every reachable state ('Load inputs' of a snapshot saved in auto
\* mode included), when auto-weights are disabled or no per-source stats
\* exist, calculateAutoWeights returns null and the rows fed to the
\* probability engine carry the manual weights of the live row set.
C23_ManualWeightsWithoutStats ==
    (pc = "app" /\ ~crashed /\ (~app.useAutoWeights \/ Len(RenderedStats) = 0)) =>
        /\ IsNull(RenderedAutoWeights)
        /\ RenderedEffectiveRows = tabRows

\* The same for the states in which no override is left by 'Load inputs'.
ManualWeightsWithoutOverride ==
    (pc = "app" /\ ~crashed /\ IsNull(app.autoWeightsOverride)
       /\ (~app.useAutoWeights \/ Len(RenderedStats) = 0)) =>
        /\ IsNull(RenderedAutoWeights)
        /\ RenderedEffectiveRows = tabRows

(***************************************************************************)
(* SpecTrimmedJoin: the statistics of a render (biases, per-source stats,  *)
(* auto-weights) and their use on rows whose names differ by blanks.       *)
(***************************************************************************)
JoinRows ==
    [source : {<<"A">>, <<" ", "A">>, <<"B">>}, forecast : {Num(90), Num(96)}, weight : {One}]

\* no outcome yet, or one snapshot with its outcome
JoinSnapshots == {<<>>, <<SetActual(EarlierSnapshot, Num(93))>>, <<SetActual(EarlierSnapshot, Num(96))>>}

InitTrimmedJoin ==
    /\ args \in [rows : SeqsUpTo(JoinRows, MaxRows), snapshots : JoinSnapshots]
    /\ ret = <<>>
    /\ pc = "call"
    /\ AppNotStarted

\* the memos of a render with bias learning and auto-weights on
CallRenderStatistics ==
    /\ pc = "call"
    /\ LET biases == computeBiases(args.snapshots, args.rows, 0)
           perSourceStats == calculatePerSourceStats(args.snapshots, args.rows)
           autoWeightsMap == calculateAutoWeights(perSourceStats, TRUE)
           eff == effectiveRows(args.rows, TRUE, Null, autoWeightsMap)
       IN  ret' = [biases |-> biases,
                   perSourceStats |-> perSourceStats,
                   effectiveRows |-> eff,
                   adjustedRows |-> adjustedRows(normalizedRows(eff), TRUE, biases)]
    /\ pc' = "done"
    /\ UNCHANGED <<args, appVars>>

SpecTrimmedJoin == InitTrimmedJoin /\ [][CallRenderStatistics]_vars

\* the bias applied to row i, and the weight it is given
AppliedBias(i) == Sub(ret.adjustedRows[i].adjForecast, args.rows[i].forecast)

GivenWeight(i) == ret.effectiveRows[i].weight

\* each trimmed name has one entry at most in the biases and in the stats
OneEntryPerName ==
    /\ \A i, j \in 1..Len(ret.biases) : ret.biases[i].k = ret.biases[j].k => i = j
    /\ \A i, j \in 1..Len(ret.perSourceStats) :
          ret.perSourceStats[i].source = ret.perSourceStats[j].source => i = j
    /\ \A i \in 1..Len(ret.biases) : ret.biases[i].k = Trim(ret.biases[i].k)

\* C24: statistics are joined on the trimmed source name: a row whose source
\* differs from another only by leading or trailing blanks receives the same
\* applied bias and the same auto-weight as the row with the trimmed name,
\* and two rows with the same trimmed name are accumulated as one source.
C24_JoinOnTrimmedName ==
    pc = "done" =>
        /\ OneEntryPerName
        /\ \A i, j \in 1..Len(args.rows) :
              Trim(args.rows[i].source) = Trim(args.rows[j].source) =>
                  /\ AppliedBias(i) = AppliedBias(j)
                  /\ GivenWeight(i) = GivenWeight(j)

\* The accumulation alone is by trimmed name.
AccumulatedByTrimmedName == pc = "done" => OneEntryPerName

\* Rows whose names are typed without blanks do get the statistics of their
\* source.
JoinOfTrimmedRows ==
    (pc = "done" /\ \A i \in 1..Len(args.rows) : args.rows[i].source = Trim(args.rows[i].source)) =>
        \A i, j \in 1..Len(args.rows) :
            args.rows[i].source = args.rows[j].source =>
                /\ AppliedBias(i) = AppliedBias(j)
                /\ GivenWeight(i) = GivenWeight(j)

(***************************************************************************)
(* Rows that resolve to no bracket, and single rows (SpecBaseProbs).       *)
(***************************************************************************)
\* the row set without its row at position i
WithoutRow(rows, i) == [j \in 1..(Len(rows) - 1) |-> IF j < i THEN rows[j] ELSE rows[j + 1]]

\* f exceeds every threshold of a scheme whose last max is finite
AboveEveryThreshold(f, scheme) ==
    /\ Len(scheme) > 0
    /\ IsFinite(scheme[Len(scheme)].max)
    /\ IsFinite(f)
    /\ \A k \in 1..Len(scheme) : Gt(f, scheme[k].max)

\* C25: a row whose adjusted forecast is not finite, or whose forecast
\* exceeds every threshold of a scheme with a finite last max, adds nothing
\* to any bracket: calculateBaseProbs returns the same vector as for the row
\* set without that row.
C25_UnresolvedRowAddsNothing ==
    pc = "done" =>
        \A i \in 1..Len(args.adjustedRows) :
            (~IsFinite(args.adjustedRows[i].adjForecast)
               \/ AboveEveryThreshold(args.adjustedRows[i].adjForecast, args.scheme)) =>
                ret = calculateBaseProbs(WithoutRow(args.adjustedRows, i), args.scheme)

\* Witness of C25: a row of weight 1 at 94 above the thresholds 91 and 93,
\* next to a row of weight 1/2 at 92, whose mass alone is in the result.
C25_Witness ==
    /\ pc = "done"
    /\ Len(args.scheme) = 2
    /\ args.scheme[1].max = Num(91)
    /\ args.scheme[2].max = Num(93)
    /\ args.adjustedRows = <<[adjForecast |-> Num(94), nWeight |-> One],
                             [adjForecast |-> Num(92), nWeight |-> Rat(1, 2)]>>
    /\ SumSeq(ret) = Rat(1, 2)

\* a single row of weight 1 that resolves to a bracket has been distributed
SingleUnitRow ==
    /\ pc = "done"
    /\ Len(args.adjustedRows) = 1
    /\ args.adjustedRows[1].nWeight = One
    /\ IsFinite(args.adjustedRows[1].adjForecast)
    /\ findBracket(args.scheme, args.adjustedRows[1].adjForecast) >= 0

\* one bracket holds all of the mass
AllInOneBracket == \E k \in 1..Len(ret) : ret[k] = One

\* C26 as stated: for a single row of weight 1, calculateBaseProbs never
\* places 100% of the mass in one bracket unless the row's bracket sits in
\* the interior of a multi-bracket scheme.
C26_Original_AllMassOnlyInInterior ==
    (SingleUnitRow /\ AllInOneBracket) =>
        LET b == findBracket(args.scheme, args.adjustedRows[1].adjForecast)
        IN  Len(args.scheme) >= 2 /\ b >= 1 /\ b + 1 < Len(args.scheme)

\* C26, amended: for a single row of weight 1 that resolves to a bracket,
\* calculateBaseProbs places 100% of the mass in one bracket exactly when the
\* scheme has a single bracket; in a scheme of two or more brackets, at the
\* edge or in the interior, the row's bracket holds 0.7 and no bracket holds
\* all of the mass.
C26_AllMassOnlyInSingleBracketScheme ==
    SingleUnitRow =>
        /\ AllInOneBracket <=> Len(args.scheme) = 1
        /\ Len(args.scheme) >= 2 =>
              At(ret, findBracket(args.scheme, args.adjustedRows[1].adjForecast)) = Rat(7, 10)

\* Witness of C26: the only bracket of a scheme holds all of the mass of the
\* row.
C26_Witness ==
    /\ SingleUnitRow
    /\ Len(args.scheme) = 1
    /\ ret = <<One>>

(***************************************************************************)
(* Frame of the snapshot actions (SpecSnapshots).                          *)
(***************************************************************************)
\* two snapshots that agree on every field but actual
SameButActual(s, t) ==
    [f \in DOMAIN s \ {"actual"} |-> s[f]] = [f \in DOMAIN t \ {"actual"} |-> t[f]]

\* only the snapshots with a selected id are touched, and only in their actual
OnlyActualOfSelected(before, after, ids) ==
    /\ Len(after) = Len(before)
    /\ \A i \in 1..Len(before) :
          IF before[i].id \in ids THEN SameButActual(before[i], after[i])
          ELSE after[i] = before[i]

\* after is before without the snapshots of one id, in the same order
OneIdRemoved(before, after) ==
    \E id \in {before[i].id : i \in 1..Len(before)} :
        after = SelectSeq(before, LAMBDA s : s.id # id)

\* C27: attach-actual and clear-actual change only the actual field of the
\* snapshots whose ids are selected, delete removes only the snapshot with
\* the given id, every other snapshot of the tab is left identical and in the
\* same relative order, and save puts the new snapshot at the front without
\* altering the existing ones.
C27_SnapshotActionsFrame ==
    [][/\ (handleAttachActualToSnapshots /\ ~AttachIgnored) =>
             /\ OnlyActualOfSelected(tabSnapshots, tabSnapshots', app.actualAttachIds)
             /\ \A i \in 1..Len(tabSnapshots) :
                   tabSnapshots[i].id \in app.actualAttachIds =>
                       /\ HasActual(tabSnapshots'[i])
                       /\ tabSnapshots'[i].actual = NumberOfText(app.actualInput)
       /\ handleClearActualOnSnapshots =>
             /\ OnlyActualOfSelected(tabSnapshots, tabSnapshots', app.actualAttachIds)
             /\ \A i \in 1..Len(tabSnapshots) :
                   tabSnapshots[i].id \in app.actualAttachIds => ~HasActual(tabSnapshots'[i])
       /\ handleDeleteSnapshot => OneIdRemoved(tabSnapshots, tabSnapshots')
       /\ handleSaveSnapshot =>
             /\ Len(tabSnapshots') = Len(tabSnapshots) + 1
             /\ Tail(tabSnapshots') = tabSnapshots]_vars

\* Witness of C27: of two saved forecasts the newer one has been given the
\* outcome 93, the older one is as it was saved.
C27_Witness ==
    /\ pc = "app"
    /\ ~crashed
    /\ Len(tabSnapshots) = 2
    /\ HasActual(tabSnapshots[1])
    /\ tabSnapshots[1].actual = Num(93)
    /\ tabSnapshots[2] = JsonSnapshot(EarlierSnapshot)
    /\ app.actualAttachIds = {}
    /\ app.actualInput = ""

\* C28: invoking attach-actual with an empty actual field, an actual that is
\* no finite number, or an empty selection of snapshots is ignored: no
\* snapshot's actual changes, and the collection and the persisted store
\* stay as they were.
C28_InvalidAttachIsIgnored ==
    [][(/\ handleAttachActualToSnapshots
        /\ \/ app.actualInput = ""
           \/ ~IsFinite(NumberOfText(app.actualInput))
           \/ app.actualAttachIds = {}) =>
          /\ app'.tabData = app.tabData
          /\ storage' = storage
          /\ ~crashed']_vars

\* Witness of C28: with a forecast selected and the field holding 1e999 the
\* last click on Attach was ignored; the forecast has no actual.
C28_Witness ==
    /\ pc = "app"
    /\ ~crashed
    /\ ret = [attach |-> "ignored"]
    /\ app.actualInput = "1e999"
    /\ app.actualAttachIds # {}
    /\ \A i \in 1..Len(tabSnapshots) : ~HasActual(tabSnapshots[i])

(***************************************************************************)
(* SpecTabs: row edits and snapshot actions on one tab or the other.       *)
(***************************************************************************)
\* Math.max(0, ...rows.map(r => r.id))
MaxId(rows) ==
    IF Len(rows) = 0 THEN 0
    ELSE CHOOSE x \in {rows[i].id : i \in 1..Len(rows)} : \A i \in 1..Len(rows) : rows[i].id <= x

\* the Add source button
addSource ==
    /\ Acting
    /\ Len(tabRows) < MaxRows
    /\ LET newRows == Append(tabRows, [id |-> MaxId(tabRows) + 1, source |-> <<>>,
                                       forecast |-> Zero, weight |-> Zero])
       IN  /\ app' = WithTabRows(newRows)
           /\ storage' = StoredTabData(WithTabRows(newRows).tabData)
    /\ Elapse
    /\ UNCHANGED <<callVars, download, writable, crashed, console>>

\* the Remove button of a row, disabled on the last row
removeSource ==
    /\ Acting
    /\ Len(tabRows) > 1
    /\ \E i \in 1..Len(tabRows) :
          LET newRows == SelectSeq(tabRows, LAMBDA r : r.id # tabRows[i].id)
          IN  /\ app' = WithTabRows(newRows)
              /\ storage' = StoredTabData(WithTabRows(newRows).tabData)
    /\ Elapse
    /\ UNCHANGED <<callVars, download, writable, crashed, console>>

NextTabs ==
    \/ setActiveTab
    \/ addSource
    \/ removeSource
    \/ updateSource
    \/ handleSaveSnapshot
    \/ setActualInput
    \/ toggleActualAttachId
    \/ handleAttachActualToSnapshots
    \/ handleClearActualOnSnapshots
    \/ handleDeleteSnapshot

SpecTabs == InitApp /\ [][NextTabs]_vars

\* a row edit or a snapshot mutation
TabMutation ==
    \/ addSource
    \/ removeSource
    \/ updateSource
    \/ handleSaveSnapshot
    \/ handleAttachActualToSnapshots /\ ~AttachIgnored
    \/ handleClearActualOnSnapshots
    \/ handleDeleteSnapshot

OtherTabsUnchanged ==
    /\ app'.activeTab = app.activeTab
    /\ \A tab \in tabs \ {app.activeTab} : app'.tabData[tab] = app.tabData[tab]

\* the store holds one entry, 'tab_sources_config'
OneConfigEntry(item) ==
    /\ item.kind = "array"
    /\ Len(item.value) = 1
    /\ item.value[1].id = ConfigId
    /\ "tabSources" \in DOMAIN item.value[1]

\* C29: every row edit (add, remove, update source) and every snapshot
\* mutation (save, attach, clear, delete) performed while a tab is active
\* leaves the rows and snapshot collections of all other tabs unchanged, and
\* after each such mutation the persisted store holds exactly one
\* 'tab_sources_config' entry whose tabSources equals the new tab data in
\* memory.
C29_TabIsolationAndStore ==
    [][TabMutation =>
          /\ OtherTabsUnchanged
          /\ OneConfigEntry(storage')
          /\ storage'.value[1].tabSources = app'.tabData]_vars

\* The isolation of the tabs alone.
TabIsolation == [][TabMutation => OtherTabsUnchanged]_vars

\* The store holds one entry, whose tabSources is what JSON makes of the new
\* tab data.
StoreHoldsJsonOfTabData ==
    [][TabMutation =>
          /\ OneConfigEntry(storage')
          /\ storage'.value[1].tabSources = JsonTabData(app'.tabData)]_vars

====
